---- MODULE Spec2Model ----
(***************************************************************************)
(* Model of the vcluster operation engine (VClusterOpEngine.Run), the      *)
(* process-wide AdapterPool with its per-host fan-out (sendRequest), the   *)
(* HTTPRequestDispatcher.Setup path and the OpBase certificate loading,   *)
(* followed by single operations and commands studied on their own: the    *)
(* re-IP op, VRemoveNode, VAddNode, VRemoveSubcluster, hasQuorum, the NMA  *)
(* version check, the NMA health check, the get-up-nodes op, the           *)
(* check-nodes-exist op, the poll-node-state op, sendRequest with the      *)
(* answers of the hosts fixed beforehand, the read-catalog-editor op, the  *)
(* classifiers of a host result and the create-node op.                    *)
(***************************************************************************)
EXTENDS Integers, Sequences, FiniteSets, TLC

\* ---------------------------------------------------------------- bounds
MaxOps == 2
NumHosts == 2
MaxPolls == 1
MaxCalls == 6
MaxReIP == 2
NumDBHosts == 3
MaxTargets == 2
MaxScCalls == 2
MaxCount == 7
MaxPollRounds == 2

Hosts == 1..NumHosts
OpIds == 1..MaxOps
Workflows == {1, 2}

\* ------------------------------------------------ ResultStatus constants
SUCCESS == "SUCCESS"
FAILURE == "FAILURE"
EXCEPTION == "EXCEPTION"
ResultStatus == {SUCCESS, FAILURE, EXCEPTION}

VARIABLES
  \* ---- VClusterOpEngine.Run
  nOps,          \* len(opEngine.instructions)
  idx,           \* position of the range loop (1-based)
  pc,            \* where Run is: "loop", "prepared", "collect", "finalize", "returned"
  statusCode,    \* local statusCode of Run
  prepareResult, \* status of the current op's Prepare result
  skipExecute,   \* OpBase.skipExecute of the current op
  runErr,        \* what Run returned: "none" (still running), "nil", "error"
  \* ---- AdapterPool and the ClusterHTTPRequest of the current op
  connections,   \* pool.connections: host -> adapter.host (domain: hosts in the pool)
  reqColl,       \* keys of RequestCollection
  resColl,       \* ResultCollection: [nil |-> is a nil map, m |-> host -> status]
  taskState,     \* per-host goroutine: "idle", "running", "done"
  taskOp,        \* op index the goroutine of a host was started for
  resultChannel, \* contents of the buffered result channel
  hostCount,     \* len(adapterToRequestCollection) of the sendRequest in progress
  recvCount,     \* loop counter i of the collect loop
  polls,         \* re-dispatches made by the current op's Execute
  \* ---- history (observation only)
  trace,         \* calls made by Run, in order
  dispatched,    \* hosts the current op's requests were sent to
  sendLog,       \* outcome of the last sendRequest: "none", "ok", "error"
  \* ---- two workflows calling HTTPRequestDispatcher.Setup on the shared pool
  sHosts,        \* workflow -> the host list it sets up
  sPc,           \* workflow -> "start", "loop", "writing", "done", "dead"
  sPos,          \* workflow -> position in its host list
  sOnce,         \* once.Do has run: poolInstance is made
  sConn,         \* keys of the shared pool.connections
  sOverlap,      \* workflow -> its map write in progress overlapped another one
  sRaced,        \* some unsynchronized overlapping access to the map happened
  \* ---- one op's requests and the certificate loading
  cFind,         \* findCertsInOptions: the workflow has TLS material
  cHosts,        \* op.hosts
  cReq,          \* RequestCollection: host -> request (its certificate fields)
  cCalls,        \* methods called on the op so far, in order
  cErr,          \* what the last loadCertsIfNeeded returned: "none", "nil", "error"
  cBefore,       \* RequestCollection at entry of the last loadCertsIfNeeded
  cSent,         \* the requests execute dispatched
  \* ---- one call of an operation or of a command under study
  unit           \* its inputs, its position and what it produced (a record)

engineVars == <<nOps, idx, pc, statusCode, prepareResult, skipExecute, runErr>>
poolVars == <<connections, reqColl, resColl, taskState, taskOp, resultChannel,
              hostCount, recvCount, polls>>
histVars == <<trace, dispatched, sendLog>>
engineVars_nopc == <<nOps, idx, statusCode, prepareResult, skipExecute, runErr>>
setupVars == <<sHosts, sPc, sPos, sOnce, sConn, sOverlap, sRaced>>
certVars == <<cFind, cHosts, cReq, cCalls, cErr, cBefore, cSent>>
\* what the engine and the pool of one workflow leave alone
otherVars == <<setupVars, certVars, unit>>
\* what the call under study leaves alone
baseVars == <<engineVars, poolVars, histVars, setupVars, certVars>>
vars == <<engineVars, poolVars, histVars, setupVars, certVars, unit>>

\* ---------------------------------------------------------------- helpers
isPassing(st) == st = SUCCESS

isFailing(st) == st = FAILURE

isException(st) == st = EXCEPTION

EmptyMap == [x \in {} |-> SUCCESS]

NilMap == [nil |-> TRUE, m |-> EmptyMap]

\* make(map[string]HostHTTPResult)
MakeMap == [nil |-> FALSE, m |-> EmptyMap]

\* m[k] = v
MapPut(m, k, v) == [x \in (DOMAIN m) \cup {k} |-> IF x = k THEN v ELSE m[x]]

Event(ev, op, res, skip) == [ev |-> ev, op |-> op, res |-> res, skip |-> skip]

\* ------------------------------------------- HTTPRequestDispatcher.Setup
\* mutant: every adapter is given the first host of the list
AdapterHostFor_First(host) == 1

\* adapter.host = host
AdapterHostFor(host) == host

\* pool.connections[host] = &adapter, for each host of the list
Setup(conns, hosts) ==
  [h \in (DOMAIN conns) \cup hosts |->
     IF h \in hosts THEN AdapterHostFor(h) ELSE conns[h]]

\* ------------------------------------------------ AdapterPool.sendRequest
\* the lookup loop: some host of RequestCollection has no adapter
MissingAdapter(conns, keys) == \E h \in keys : h \notin DOMAIN conns

\* mutant: the collect loop stops one result short
AllCollected_OffByOne(i, n) == i >= n - 1

\* the collect loop ends: for i := 0; i < hostCount; i++
AllCollected(i, n) == i >= n

\* --------------------------------------------------- VClusterOpEngine.Run
\* if prepareResult.isPassing() { ... op.Execute(...) }
ShouldExecute(prepRes, skip) == isPassing(prepRes)

\* mutant: only a failure aborts, an exception does not
ShouldAbort_OnlyFailure(st) == isFailing(st)

\* if statusCode != SUCCESS { return fmt.Errorf(...) }
ShouldAbort(st) == st # SUCCESS

\* no call to Setup is in progress
SetupIdle ==
  /\ sHosts = [w \in Workflows |-> <<>>]
  /\ sPc = [w \in Workflows |-> "done"]
  /\ sPos = [w \in Workflows |-> 1]
  /\ sOnce = FALSE
  /\ sConn = {}
  /\ sOverlap = [w \in Workflows |-> FALSE]
  /\ sRaced = FALSE

\* a zero-valued ClusterHTTPRequest on which nothing was called
CertsIdle(finds, hostSets) ==
  /\ cFind \in finds
  /\ cHosts \in hostSets
  /\ cReq = EmptyMap
  /\ cCalls = <<>>
  /\ cErr = "none"
  /\ cBefore = EmptyMap
  /\ cSent = EmptyMap

\* no operation or command is under study
UnitIdle == unit = [kind |-> "idle"]

\* Run is entered with a list of n instructions, n in ns
EngineInit(ns) ==
  /\ nOps \in ns
  /\ idx = 1
  /\ pc = "loop"
  /\ statusCode = SUCCESS
  /\ prepareResult = SUCCESS
  /\ skipExecute = FALSE
  /\ runErr = "none"
  /\ connections = EmptyMap
  /\ reqColl = {}
  /\ resColl = NilMap
  /\ taskState = [h \in Hosts |-> "idle"]
  /\ taskOp = [h \in Hosts |-> 0]
  /\ resultChannel = <<>>
  /\ hostCount = 0
  /\ recvCount = 0
  /\ polls = 0
  /\ trace = <<>>
  /\ dispatched = {}
  /\ sendLog = "none"

Init ==
  /\ EngineInit(1..MaxOps)
  /\ SetupIdle
  /\ CertsIdle({FALSE}, {{}})
  /\ UnitIdle

\* op.Prepare(&execContext) of the op at idx: the op sets up the dispatcher for
\* the hosts hs, builds requests for the hosts rq and returns res; a passing
\* prepare may set skipExecute.
RunPrepare ==
  /\ pc = "loop"
  /\ idx <= nOps
  /\ \E hs \in SUBSET Hosts, rq \in SUBSET Hosts, res \in ResultStatus, skip \in BOOLEAN :
       /\ skip => isPassing(res)
       /\ connections' = Setup(connections, hs)
       /\ reqColl' = rq
       /\ prepareResult' = res
       /\ skipExecute' = skip
       /\ trace' = Append(trace, Event("prepare", idx, res, skip))
  /\ resColl' = NilMap
  /\ dispatched' = {}
  /\ polls' = 0
  /\ sendLog' = "none"
  /\ pc' = "prepared"
  /\ UNCHANGED <<nOps, idx, statusCode, runErr, taskState, taskOp, resultChannel,
                 hostCount, recvCount>>
  /\ UNCHANGED otherVars

\* op.Execute(&execContext) is entered: it calls dispatcher.sendRequest
RunExecute ==
  /\ pc = "prepared"
  /\ ShouldExecute(prepareResult, skipExecute)
  /\ trace' = Append(trace, Event("execute", idx, "-", FALSE))
  /\ pc' = "send"
  /\ UNCHANGED <<nOps, idx, statusCode, prepareResult, skipExecute, runErr,
                 poolVars, dispatched, sendLog>>
  /\ UNCHANGED otherVars

\* prepare did not pass: Run only logs and goes on to Finalize
RunPrepareNotPassing ==
  /\ pc = "prepared"
  /\ ~ShouldExecute(prepareResult, skipExecute)
  /\ pc' = "finalize"
  /\ UNCHANGED <<nOps, idx, statusCode, prepareResult, skipExecute, runErr,
                 poolVars, histVars>>
  /\ UNCHANGED otherVars

\* mutant: the goroutines of the hosts found so far are started inside the
\* lookup loop, before the missing host is noticed
SendRequestHostNotFound_PartialSend ==
  /\ pc = "send"
  /\ MissingAdapter(connections, reqColl)
  /\ sendLog' = "error"
  /\ statusCode' = EXCEPTION
  /\ trace' = Append(trace, Event("executeReturn", idx, EXCEPTION, FALSE))
  /\ pc' = "finalize"
  /\ taskState' = [h \in Hosts |->
       IF h \in reqColl /\ h \in DOMAIN connections THEN "running" ELSE taskState[h]]
  /\ dispatched' = dispatched \cup (reqColl \cap DOMAIN connections)
  /\ UNCHANGED <<nOps, idx, prepareResult, skipExecute, runErr, connections, reqColl,
                 resColl, taskOp, resultChannel, hostCount, recvCount, polls>>
  /\ UNCHANGED otherVars

\* sendRequest: a host is not in the pool; it returns an error, Execute
\* returns an exception result
SendRequestHostNotFound ==
  /\ pc = "send"
  /\ MissingAdapter(connections, reqColl)
  /\ sendLog' = "error"
  /\ statusCode' = EXCEPTION
  /\ trace' = Append(trace, Event("executeReturn", idx, EXCEPTION, FALSE))
  /\ pc' = "finalize"
  /\ UNCHANGED <<nOps, idx, prepareResult, skipExecute, runErr, poolVars, dispatched>>
  /\ UNCHANGED otherVars

\* sendRequest: every host has an adapter; one goroutine per host is started
\* and ResultCollection is replaced by a fresh map
SendRequestDispatch ==
  /\ pc = "send"
  /\ ~MissingAdapter(connections, reqColl)
  /\ hostCount' = Cardinality(reqColl)
  /\ resultChannel' = <<>>
  /\ taskState' = [h \in Hosts |-> IF h \in reqColl THEN "running" ELSE taskState[h]]
  /\ taskOp' = [h \in Hosts |-> IF h \in reqColl THEN idx ELSE taskOp[h]]
  /\ resColl' = MakeMap
  /\ recvCount' = 0
  /\ dispatched' = dispatched \cup reqColl
  /\ sendLog' = "none"
  /\ pc' = "collect"
  /\ UNCHANGED <<engineVars_nopc, connections, reqColl, polls, trace>>
  /\ UNCHANGED otherVars

\* HTTPAdapter.sendRequest, one goroutine: performs the call against its host
\* and delivers exactly one HostHTTPResult, carrying the adapter's host, on
\* the result channel (a send blocks while the channel is full)
AdapterResult(adapterHost, st) == [host |-> adapterHost, status |-> st]

AdapterSendRequest(h) ==
  /\ taskState[h] = "running"
  /\ Len(resultChannel) < hostCount
  /\ \E st \in ResultStatus :
       resultChannel' = Append(resultChannel, AdapterResult(connections[h], st))
  /\ taskState' = [taskState EXCEPT ![h] = "done"]
  /\ UNCHANGED <<engineVars, connections, reqColl, resColl, taskOp, hostCount,
                 recvCount, polls, histVars>>
  /\ UNCHANGED otherVars

\* one iteration of the collect loop: result, ok := <-resultChannel
CollectResult ==
  /\ pc = "collect"
  /\ ~AllCollected(recvCount, hostCount)
  /\ resultChannel # <<>>
  /\ LET result == Head(resultChannel) IN
       resColl' = [resColl EXCEPT !.m = MapPut(@, result.host, result.status)]
  /\ resultChannel' = Tail(resultChannel)
  /\ recvCount' = recvCount + 1
  /\ UNCHANGED <<engineVars, connections, reqColl, taskState, taskOp, hostCount,
                 polls, histVars>>
  /\ UNCHANGED otherVars

\* the collect loop is over: close(resultChannel); return nil
SendRequestReturn ==
  /\ pc = "collect"
  /\ AllCollected(recvCount, hostCount)
  /\ sendLog' = "ok"
  /\ pc' = "process"
  /\ UNCHANGED <<engineVars_nopc, poolVars, trace, dispatched>>
  /\ UNCHANGED otherVars

\* processResult of a polling op sends the same requests again
ExecutePollAgain ==
  /\ pc = "process"
  /\ polls < MaxPolls
  /\ polls' = polls + 1
  /\ pc' = "send"
  /\ UNCHANGED <<engineVars_nopc, connections, reqColl, resColl, taskState, taskOp,
                 resultChannel, hostCount, recvCount, histVars>>
  /\ UNCHANGED otherVars

\* mutant: Execute does not wait for sendRequest to return
ExecuteReturn_NoWait ==
  /\ pc \in {"collect", "process"}
  /\ \E st \in ResultStatus :
       /\ statusCode' = st
       /\ trace' = Append(trace, Event("executeReturn", idx, st, FALSE))
  /\ pc' = "finalize"
  /\ UNCHANGED <<nOps, idx, prepareResult, skipExecute, runErr, poolVars,
                 dispatched, sendLog>>
  /\ UNCHANGED otherVars

\* processResult returns the op's result; statusCode = executeResult.status
ExecuteReturn ==
  /\ pc = "process"
  /\ \E st \in ResultStatus :
       /\ statusCode' = st
       /\ trace' = Append(trace, Event("executeReturn", idx, st, FALSE))
  /\ pc' = "finalize"
  /\ UNCHANGED <<nOps, idx, prepareResult, skipExecute, runErr, poolVars,
                 dispatched, sendLog>>
  /\ UNCHANGED otherVars

\* mutant: the status check comes before Finalize, which a failed op never gets
RunFinalize_EarlyReturn ==
  /\ pc = "finalize"
  /\ IF ShouldAbort(statusCode)
       THEN /\ pc' = "returned"
            /\ runErr' = "error"
            /\ idx' = idx
            /\ trace' = trace
       ELSE /\ pc' = "loop"
            /\ runErr' = runErr
            /\ idx' = idx + 1
            /\ trace' = Append(trace, Event("finalize", idx, "-", FALSE))
  /\ UNCHANGED <<nOps, statusCode, prepareResult, skipExecute, poolVars,
                 dispatched, sendLog>>
  /\ UNCHANGED otherVars

\* op.Finalize(&execContext), then the status check that ends the iteration
RunFinalize ==
  /\ pc = "finalize"
  /\ trace' = Append(trace, Event("finalize", idx, "-", FALSE))
  /\ IF ShouldAbort(statusCode)
       THEN /\ pc' = "returned"
            /\ runErr' = "error"
            /\ idx' = idx
       ELSE /\ pc' = "loop"
            /\ runErr' = runErr
            /\ idx' = idx + 1
  /\ UNCHANGED <<nOps, statusCode, prepareResult, skipExecute, poolVars,
                 dispatched, sendLog>>
  /\ UNCHANGED otherVars

\* the range loop is exhausted: return nil
RunReturnNil ==
  /\ pc = "loop"
  /\ idx > nOps
  /\ pc' = "returned"
  /\ runErr' = "nil"
  /\ UNCHANGED <<nOps, idx, statusCode, prepareResult, skipExecute, poolVars, histVars>>
  /\ UNCHANGED otherVars

Next ==
  \/ RunPrepare
  \/ RunExecute
  \/ RunPrepareNotPassing
  \/ SendRequestHostNotFound
  \/ SendRequestDispatch
  \/ \E h \in Hosts : AdapterSendRequest(h)
  \/ CollectResult
  \/ SendRequestReturn
  \/ ExecutePollAgain
  \/ ExecuteReturn
  \/ RunFinalize
  \/ RunReturnNil

Spec == Init /\ [][Next]_vars

\* every started goroutine runs to its response or timeout, and the single
\* thread of Run keeps running
FairSpec ==
  /\ Spec
  /\ \A h \in Hosts : WF_vars(AdapterSendRequest(h))
  /\ WF_vars(CollectResult)
  /\ WF_vars(SendRequestReturn)

\* ------------------------------------------------------ reading the trace
Calls(ev, i) == {p \in DOMAIN trace : trace[p].ev = ev /\ trace[p].op = i}

Rank(ev) ==
  CASE ev = "prepare" -> 1
    [] ev = "execute" -> 2
    [] ev = "executeReturn" -> 3
    [] ev = "finalize" -> 4

\* C1: when an operation's prepare fails, its execute is never called, no
\* later operation is prepared or executed, and Run returns an error.
C1_PrepareFailureAborts ==
  \A p \in DOMAIN trace :
    (trace[p].ev = "prepare" /\ ~isPassing(trace[p].res)) =>
      /\ \A q \in DOMAIN trace : q > p => trace[q].ev \notin {"prepare", "execute"}
      /\ pc = "returned" => runErr = "error"

\* C2: when an operation's execute returns failure or exception, the engine
\* calls that operation's finalize and then returns an error; nothing but that
\* finalize follows the failed execute, so no later operation is prepared or
\* executed.
C2_ExecuteFailureFinalizesThenAborts ==
  \A p \in DOMAIN trace :
    (trace[p].ev = "executeReturn" /\ ~isPassing(trace[p].res)) =>
      /\ Len(trace) <= p + 1
      /\ Len(trace) = p => pc = "finalize"
      /\ Len(trace) = p + 1 =>
           /\ trace[p + 1].ev = "finalize"
           /\ trace[p + 1].op = trace[p].op
           /\ pc = "returned"
           /\ runErr = "error"

C2_Witness ==
  /\ pc = "returned"
  /\ runErr = "error"
  /\ nOps = 2
  /\ Len(trace) = 4
  /\ trace[3].ev = "executeReturn" /\ trace[3].res = FAILURE /\ trace[3].op = 1
  /\ trace[4].ev = "finalize" /\ trace[4].op = 1

\* C3: for every operation whose prepare was called, finalize is called
\* exactly once (never more, never before prepare, and once the engine has
\* left the operation, exactly once), whatever prepare and execute returned.
C3_FinalizeExactlyOnce ==
  \A i \in OpIds :
    LET nprep == Cardinality(Calls("prepare", i))
        nfin == Cardinality(Calls("finalize", i))
    IN /\ nfin <= nprep
       /\ nprep <= 1
       /\ (nprep = 1 /\ (idx > i \/ pc = "returned")) => nfin = 1

C3_Witness ==
  /\ pc = "returned"
  /\ Len(trace) = 6
  /\ trace[1].ev = "prepare" /\ trace[1].res = FAILURE
  /\ trace[2].ev = "finalize" /\ trace[2].op = 1
  /\ trace[3].ev = "prepare" /\ trace[3].res = SUCCESS /\ trace[3].op = 2
  /\ trace[5].ev = "executeReturn" /\ trace[5].res = EXCEPTION
  /\ trace[6].ev = "finalize" /\ trace[6].op = 2

\* C4: operations run strictly in list order, each through prepare, execute,
\* finalize in that order; operation i+1's prepare directly follows operation
\* i's finalize; a request is outstanding only inside the execute of the
\* current operation, so none of operation i+1 is dispatched while one of
\* operation i is outstanding.
C4_StrictlySequential ==
  /\ \A p, q \in DOMAIN trace :
       p < q =>
         \/ trace[p].op < trace[q].op
         \/ trace[p].op = trace[q].op /\ Rank(trace[p].ev) < Rank(trace[q].ev)
  /\ \A q \in DOMAIN trace :
       trace[q].ev = "prepare" =>
         IF trace[q].op = 1 THEN q = 1
         ELSE /\ q > 1
              /\ trace[q - 1].ev = "finalize"
              /\ trace[q - 1].op = trace[q].op - 1
  /\ \A h \in Hosts :
       taskState[h] = "running" =>
         /\ taskOp[h] = idx
         /\ pc = "collect"
         /\ trace[Len(trace)] = Event("execute", idx, "-", FALSE)

C4_Witness ==
  /\ idx = 2
  /\ pc = "collect"
  /\ \E h \in Hosts : taskState[h] = "running"
  /\ \E h \in Hosts : taskOp[h] = 1
  /\ Calls("executeReturn", 1) # {}

\* C5: when prepare passes and sets skipExecute, execute is not called for
\* that operation and none of its requests is dispatched; finalize is still
\* called and the engine goes on to the next operation.
C5_SkipExecuteHonoured ==
  /\ \A p \in DOMAIN trace :
       (trace[p].ev = "prepare" /\ trace[p].skip) =>
         /\ Calls("execute", trace[p].op) = {}
         /\ (idx > trace[p].op \/ pc = "returned") =>
              /\ Calls("finalize", trace[p].op) # {}
              /\ runErr # "error"
  /\ (pc \notin {"loop", "returned"} /\ skipExecute) => dispatched = {}

\* C6: after every successful sendRequest, ResultCollection has exactly one
\* entry per host of RequestCollection.
C6_ResultsMatchRequests ==
  sendLog = "ok" =>
    /\ ~resColl.nil
    /\ DOMAIN resColl.m = reqColl
    /\ Cardinality(DOMAIN resColl.m) = Cardinality(reqColl)

C6_Witness ==
  /\ sendLog = "ok"
  /\ Cardinality(reqColl) >= 2
  /\ polls >= 1

\* C7: a sendRequest that finds a host without adapter returns an error,
\* starts no task, sends nothing (not even to hosts that have an adapter) and
\* leaves ResultCollection as it was.
C7_MissingAdapterFailsBatch ==
  [][(pc = "send" /\ MissingAdapter(connections, reqColl)) =>
       /\ sendLog' = "error"
       /\ resColl' = resColl
       /\ taskState' = taskState
       /\ taskOp' = taskOp
       /\ resultChannel' = resultChannel
       /\ dispatched' = dispatched
       /\ pc' # "collect"]_vars

C7_Witness ==
  /\ sendLog = "error"
  /\ \E h \in reqColl : h \in DOMAIN connections
  /\ \E h \in reqColl : h \notin DOMAIN connections
  /\ dispatched = {}
  /\ \A h \in Hosts : taskState[h] # "running"

\* C8: sendRequest returns only after every task it started has delivered
\* its result (none is running, none of its results is left on the channel,
\* hostCount results were received); and if every task eventually responds,
\* a sendRequest that has dispatched eventually returns.
C8_Returned == pc \in {"process", "finalize", "loop", "returned", "prepared"}

C8_ReturnsAfterAllTasks ==
  /\ [](C8_Returned =>
          /\ \A h \in Hosts : taskState[h] # "running"
          /\ resultChannel = <<>>
          /\ sendLog = "ok" => recvCount = hostCount)
  /\ (pc = "collect") ~> (pc = "process")

C8_Witness ==
  /\ pc = "process"
  /\ hostCount = 2
  /\ \A h \in Hosts : taskState[h] = "done"

\* everything but the call under study is at rest
BaseIdle ==
  /\ EngineInit({1})
  /\ SetupIdle
  /\ CertsIdle({FALSE}, {{}})

\* ================================================================== Setup
\* Two workflows of one process call HTTPRequestDispatcher.Setup at the same
\* time. getPoolInstance hands each the same map (the AdapterPool struct is
\* copied, its connections map is shared); the assignments into it take no
\* lock. Two overlapping assignments to a Go map are a data race: the write
\* may land, may be lost, or the runtime may stop the process ("concurrent
\* map writes").
notSetupVars == <<engineVars, poolVars, histVars, certVars, unit>>

\* host lists without repetition, of 1 to NumHosts hosts
HostLists ==
  {l \in UNION {[1..n -> Hosts] : n \in 1..NumHosts} :
     \A i, j \in DOMAIN l : i # j => l[i] # l[j]}

InitSetup ==
  /\ EngineInit({1})
  /\ CertsIdle({FALSE}, {{}})
  /\ UnitIdle
  /\ sHosts \in [Workflows -> HostLists]
  /\ sPc = [w \in Workflows |-> "start"]
  /\ sPos = [w \in Workflows |-> 1]
  /\ sOnce = FALSE
  /\ sConn = {}
  /\ sOverlap = [w \in Workflows |-> FALSE]
  /\ sRaced = FALSE

\* dispatcher.pool = getPoolInstance(): once.Do makes the pool the first time
SetupGetPoolInstance(w) ==
  /\ sPc[w] = "start"
  /\ sOnce' = TRUE
  /\ sPc' = [sPc EXCEPT ![w] = "loop"]
  /\ UNCHANGED <<sHosts, sPos, sConn, sOverlap, sRaced, notSetupVars>>

\* dispatcher.pool.connections[host] = &adapter begins; nothing keeps another
\* workflow from being inside its own assignment
SetupBeginWrite(w) ==
  /\ sPc[w] = "loop"
  /\ sPos[w] <= Len(sHosts[w])
  /\ sPc' = [sPc EXCEPT ![w] = "writing"]
  /\ LET others == {v \in Workflows : v # w /\ sPc[v] = "writing"} IN
       /\ sOverlap' = [v \in Workflows |->
                         IF others # {} /\ v \in others \cup {w} THEN TRUE ELSE sOverlap[v]]
       /\ sRaced' = (sRaced \/ others # {})
  /\ UNCHANGED <<sHosts, sPos, sOnce, sConn, notSetupVars>>

\* the assignment completes, no other access overlapped it
SetupEndWrite(w) ==
  /\ sPc[w] = "writing"
  /\ ~sOverlap[w]
  /\ sConn' = sConn \cup {sHosts[w][sPos[w]]}
  /\ sPos' = [sPos EXCEPT ![w] = @ + 1]
  /\ sPc' = [sPc EXCEPT ![w] = "loop"]
  /\ UNCHANGED <<sHosts, sOnce, sOverlap, sRaced, notSetupVars>>

\* the assignment completes after a racing access: any of the outcomes
SetupEndWriteRaced(w) ==
  /\ sPc[w] = "writing"
  /\ sOverlap[w]
  /\ \E outcome \in {"stored", "lost", "fatal"} :
       /\ sConn' = IF outcome = "stored" THEN sConn \cup {sHosts[w][sPos[w]]} ELSE sConn
       /\ sPc' = IF outcome = "fatal" THEN [v \in Workflows |-> "dead"]
                 ELSE [sPc EXCEPT ![w] = "loop"]
  /\ sPos' = [sPos EXCEPT ![w] = @ + 1]
  /\ sOverlap' = [sOverlap EXCEPT ![w] = FALSE]
  /\ UNCHANGED <<sHosts, sOnce, sRaced, notSetupVars>>

\* the range loop over hosts is exhausted: Setup returns
SetupReturn(w) ==
  /\ sPc[w] = "loop"
  /\ sPos[w] > Len(sHosts[w])
  /\ sPc' = [sPc EXCEPT ![w] = "done"]
  /\ UNCHANGED <<sHosts, sPos, sOnce, sConn, sOverlap, sRaced, notSetupVars>>

NextSetup ==
  \/ \E w \in Workflows : SetupGetPoolInstance(w)
  \/ \E w \in Workflows : SetupBeginWrite(w)
  \/ \E w \in Workflows : SetupEndWrite(w)
  \/ \E w \in Workflows : SetupEndWriteRaced(w)
  \/ \E w \in Workflows : SetupReturn(w)

SpecSetup == InitSetup /\ [][NextSetup]_vars

\* C9: concurrent calls of Setup never access the pool's host map at the same
\* time without synchronization, and once both have returned the pool holds
\* an adapter for every host of both calls.
C9_SetupInsertionSafe ==
  /\ ~sRaced
  /\ (\A w \in Workflows : sPc[w] = "done") =>
       \A w \in Workflows : \A i \in DOMAIN sHosts[w] : sHosts[w][i] \in sConn

\* ============================================================ certificates
\* One op and the calls a caller makes on it: setupBasicInfo, prepare,
\* loadCertsIfNeeded, execute. The order of loadCertsIfNeeded and prepare is
\* the caller's; the methods are the code's.
notCertVars == <<engineVars, poolVars, histVars, setupVars, unit>>

\* the workflow's HTTPSCerts
WorkflowCerts == [key |-> "key", cert |-> "cert", caCert |-> "caCert"]

\* HostHTTPRequest{}: no certificate, UseCertsInOptions false
FreshRequest == [UseCertsInOptions |-> FALSE, key |-> "", cert |-> "", caCert |-> ""]

\* mutant: the CA certificate is not copied
RequestWithCerts_NoCA(certs) ==
  [UseCertsInOptions |-> TRUE, key |-> certs.key, cert |-> certs.cert, caCert |-> ""]

\* a request as loadCertsIfNeeded leaves it
RequestWithCerts(certs) ==
  [UseCertsInOptions |-> TRUE, key |-> certs.key, cert |-> certs.cert, caCert |-> certs.caCert]

\* OpBase.setupBasicInfo: a new ClusterHTTPRequest with an empty RequestCollection
SetupBasicInfo == EmptyMap

\* setupClusterHTTPRequest(hosts): RequestCollection[host] = a newly built request
SetupClusterHTTPRequest(req, hosts) ==
  [h \in (DOMAIN req) \cup hosts |-> IF h \in hosts THEN FreshRequest ELSE req[h]]

\* OpBase.loadCertsIfNeeded: the requests afterwards, and the error returned
LoadCertsIfNeeded(req, certs, findCertsInOptions) ==
  IF ~findCertsInOptions THEN [req |-> req, err |-> "nil"]
  ELSE IF DOMAIN req = {} THEN [req |-> req, err |-> "error"]
  ELSE [req |-> [h \in DOMAIN req |-> RequestWithCerts(certs)], err |-> "nil"]

InitCerts ==
  /\ EngineInit({1})
  /\ SetupIdle
  /\ CertsIdle(BOOLEAN, SUBSET Hosts)
  /\ UnitIdle

CertsExecuted == cCalls # <<>> /\ cCalls[Len(cCalls)] = "execute"

CertsPrepared == \E i \in DOMAIN cCalls : cCalls[i] = "prepare"

\* the caller starts with op.setupBasicInfo()
CertsSetupBasicInfo ==
  /\ cCalls = <<>>
  /\ cReq' = SetupBasicInfo
  /\ cCalls' = Append(cCalls, "setupBasicInfo")
  /\ UNCHANGED <<cFind, cHosts, cErr, cBefore, cSent, notCertVars>>

\* op.prepare(execContext): builds one request per host
CertsPrepare ==
  /\ cCalls # <<>>
  /\ ~CertsPrepared
  /\ Len(cCalls) < MaxCalls - 1
  /\ cReq' = SetupClusterHTTPRequest(cReq, cHosts)
  /\ cCalls' = Append(cCalls, "prepare")
  /\ UNCHANGED <<cFind, cHosts, cErr, cBefore, cSent, notCertVars>>

\* op.loadCertsIfNeeded(certs, findCertsInOptions)
CertsLoadCertsIfNeeded ==
  /\ cCalls # <<>>
  /\ ~CertsExecuted
  /\ Len(cCalls) < MaxCalls - 1
  /\ LET r == LoadCertsIfNeeded(cReq, WorkflowCerts, cFind) IN
       /\ cReq' = r.req
       /\ cErr' = r.err
  /\ cBefore' = cReq
  /\ cCalls' = Append(cCalls, "loadCerts")
  /\ UNCHANGED <<cFind, cHosts, cSent, notCertVars>>

\* op.execute(execContext): runExecute hands RequestCollection to the dispatcher
CertsExecute ==
  /\ CertsPrepared
  /\ ~CertsExecuted
  /\ cSent' = cReq
  /\ cCalls' = Append(cCalls, "execute")
  /\ UNCHANGED <<cFind, cHosts, cReq, cErr, cBefore, notCertVars>>

NextCerts ==
  \/ CertsSetupBasicInfo
  \/ CertsPrepare
  \/ CertsLoadCertsIfNeeded
  \/ CertsExecute

SpecCerts == InitCerts /\ [][NextCerts]_vars

\* the request has UseCertsInOptions set and holds the workflow's three certificates
CarriesCerts(r) ==
  /\ r.UseCertsInOptions
  /\ r.key = WorkflowCerts.key
  /\ r.cert = WorkflowCerts.cert
  /\ r.caCert = WorkflowCerts.caCert

\* position of the (only) prepare among the calls, 0 if none
PreparePos == IF CertsPrepared THEN CHOOSE i \in DOMAIN cCalls : cCalls[i] = "prepare" ELSE 0

\* loadCertsIfNeeded was called before prepare and not after it
LoadedOnlyBeforePrepare ==
  /\ CertsPrepared
  /\ \E i \in DOMAIN cCalls : cCalls[i] = "loadCerts" /\ i < PreparePos
  /\ \A i \in DOMAIN cCalls : cCalls[i] = "loadCerts" => i < PreparePos

\* loadCertsIfNeeded was called after prepare
LoadedAfterPrepare ==
  /\ CertsPrepared
  /\ \E i \in DOMAIN cCalls : cCalls[i] = "loadCerts" /\ i > PreparePos

LastCallIsLoadCerts == cCalls # <<>> /\ cCalls[Len(cCalls)] = "loadCerts"

\* the part of C10 that does not depend on the order of the calls: without
\* TLS material loadCertsIfNeeded changes no request and returns no error
C10_NoCertsNoChange ==
  (LastCallIsLoadCerts /\ ~cFind) => (cReq = cBefore /\ cErr = "nil")

NodeNames == 1..MaxReIP

\* sequences of 0 to n elements of S
SeqsUpTo(S, n) == UNION {[1..k -> S] : k \in 0..n}

\* host lists without repetition, of 0 to NumHosts hosts
UpHostLists ==
  {l \in SeqsUpTo(Hosts, NumHosts) : \A i, j \in DOMAIN l : i # j => l[i] # l[j]}

NoError == [type |-> "nil", detail |-> ""]

\* fmt.Errorf(...)
PlainError(detail) == [type |-> "error", detail |-> detail]

\* &ReIPNoClusterQuorumError{Detail: "[%s] %d up nodes are not enough for re-ip"}
ReIPNoClusterQuorumError ==
  [type |-> "ReIPNoClusterQuorumError", detail |-> "up nodes are not enough for re-ip"]

\* execContext.networkProfiles[address]
NetworkProfile(address) ==
  [Address |-> <<"control", address>>, Broadcast |-> <<"broadcast", address>>]

\* ReIPInfo{...} of the i-th node to re-IP
MakeReIPInfo(names, targets, i) ==
  [NodeName |-> names[i],
   TargetAddress |-> targets[i],
   TargetControlAddress |-> NetworkProfile(targets[i]).Address,
   TargetControlBroadcast |-> NetworkProfile(targets[i]).Broadcast]

\* the first loop of prepare: positions whose address has no network profile
MissingProfile(targets, profiles) == {i \in DOMAIN targets : targets[i] \notin profiles}

\* op.reIPList after the loop ran to its end: a later entry of a name overwrites
BuildReIPList(names, targets) ==
  [n \in {names[i] : i \in DOMAIN names} |->
     LET last == CHOOSE i \in DOMAIN names :
                   /\ names[i] = n
                   /\ \A j \in DOMAIN names : names[j] = n => j <= i
     IN MakeReIPInfo(names, targets, last)]

\* mutant: as many up hosts as nodes to re-IP are rejected too
NotEnoughUpHosts_Strict(nUp, nReIP) == nUp <= nReIP

\* if len(op.upHosts) < len(hostsToReIP)
NotEnoughUpHosts(nUp, nReIP) == nUp < nReIP

\* mutant: the broadcast parameter repeats the control address
ReIPRequest_BroadcastIsControl(info) ==
  [Method |-> "PUT",
   endpoint |-> <<"nodes", info.NodeName, "ip">>,
   host |-> info.TargetAddress,
   controlHost |-> info.TargetControlAddress,
   broadcast |-> info.TargetControlAddress]

\* the PUT request built for one node
ReIPRequest(info) ==
  [Method |-> "PUT",
   endpoint |-> <<"nodes", info.NodeName, "ip">>,
   host |-> info.TargetAddress,
   controlHost |-> info.TargetControlAddress,
   broadcast |-> info.TargetControlBroadcast]

\* httpsReIPOp.setupClusterHTTPRequest: the error and the RequestCollection
ReIPSetupClusterHTTPRequest(upHosts, hostsToReIP, reIPList, req) ==
  IF NotEnoughUpHosts(Len(upHosts), Len(hostsToReIP))
  THEN [err |-> ReIPNoClusterQuorumError, req |-> req]
  ELSE IF \E i \in DOMAIN hostsToReIP : hostsToReIP[i] \notin DOMAIN reIPList
  THEN [err |-> PlainError("cannot find node information"), req |-> req]
  ELSE [err |-> NoError,
        req |-> [h \in (DOMAIN req) \cup {upHosts[i] : i \in DOMAIN hostsToReIP} |->
                   IF \E i \in DOMAIN hostsToReIP : upHosts[i] = h
                   THEN ReIPRequest(reIPList[hostsToReIP[
                          CHOOSE i \in DOMAIN hostsToReIP : upHosts[i] = h]])
                   ELSE req[h]]]

\* the op as makeHTTPSReIPOp and setupBasicInfo leave it, with the execution
\* context the ops before it produced
InitReIP ==
  /\ BaseIdle
  /\ unit \in
       {[kind |-> "reip", pc |-> "made",
         nodeNamesToReIP |-> names, hostToReIP |-> targets,
         networkProfiles |-> profiles, ctxUpHosts |-> up,
         upHosts |-> <<>>, reIPList |-> <<>>, RequestCollection |-> EmptyMap,
         err |-> NoError, sent |-> {}] :
          names \in SeqsUpTo(NodeNames, MaxReIP),
          targets \in SeqsUpTo(Hosts, MaxReIP),
          profiles \in SUBSET Hosts,
          up \in UpHostLists}
  /\ Len(unit.nodeNamesToReIP) = Len(unit.hostToReIP)

\* httpsReIPOp.prepare
ReIPPrepare ==
  /\ unit.kind = "reip"
  /\ unit.pc = "made"
  /\ IF MissingProfile(unit.hostToReIP, unit.networkProfiles) # {}
     THEN unit' = [unit EXCEPT !.pc = "prepared",
                     !.err = PlainError("unable to find network profile")]
     ELSE LET list == BuildReIPList(unit.nodeNamesToReIP, unit.hostToReIP)
              r == ReIPSetupClusterHTTPRequest(unit.ctxUpHosts, unit.nodeNamesToReIP,
                                               list, unit.RequestCollection)
          IN unit' = [unit EXCEPT !.pc = "prepared", !.reIPList = list,
                        !.upHosts = unit.ctxUpHosts,
                        !.RequestCollection = r.req, !.err = r.err]
  /\ UNCHANGED baseVars

\* httpsReIPOp.execute, which the engine enters after a prepare without error:
\* runExecute sends every request of RequestCollection
ReIPExecute ==
  /\ unit.kind = "reip"
  /\ unit.pc = "prepared"
  /\ unit.err = NoError
  /\ unit' = [unit EXCEPT !.pc = "executed", !.sent = DOMAIN unit.RequestCollection]
  /\ UNCHANGED baseVars

NextReIP == ReIPPrepare \/ ReIPExecute

SpecReIP == InitReIP /\ [][NextReIP]_vars

ReIPPrepared == unit.kind = "reip" /\ unit.pc # "made"

ReIPTooFewUp == Len(unit.ctxUpHosts) < Len(unit.nodeNamesToReIP)

ReIPProfilesFound == MissingProfile(unit.hostToReIP, unit.networkProfiles) = {}

\* C11 as stated: PUT requests are dispatched only when there are at least as
\* many up hosts as nodes to re-IP; with fewer up hosts prepare returns a
\* ReIPNoClusterQuorumError whose detail says "not enough for re-ip",
\* RequestCollection stays empty and no PUT is issued.
C11_TooFewUpHostsIsQuorumError ==
  ReIPPrepared =>
    /\ unit.sent # {} => ~ReIPTooFewUp
    /\ ReIPTooFewUp =>
         /\ unit.err.type = "ReIPNoClusterQuorumError"
         /\ unit.err.detail = "up nodes are not enough for re-ip"
         /\ unit.RequestCollection = EmptyMap
         /\ unit.sent = {}

\* C11 amended: PUT requests are dispatched only when there are at least as
\* many up hosts as nodes to re-IP; with fewer up hosts prepare returns an
\* error, RequestCollection stays empty and no PUT is issued, and the error is
\* a ReIPNoClusterQuorumError ("not enough for re-ip") when every new address
\* has a network profile (otherwise prepare stops earlier on the missing
\* profile); with enough up hosts and all profiles prepare succeeds.
C11_TooFewUpHostsIsError ==
  ReIPPrepared =>
    /\ unit.sent # {} => ~ReIPTooFewUp
    /\ ReIPTooFewUp =>
         /\ unit.err.type # "nil"
         /\ unit.RequestCollection = EmptyMap
         /\ unit.sent = {}
    /\ (ReIPTooFewUp /\ ReIPProfilesFound) =>
         /\ unit.err.type = "ReIPNoClusterQuorumError"
         /\ unit.err.detail = "up nodes are not enough for re-ip"
    /\ (~ReIPTooFewUp /\ ReIPProfilesFound) => unit.err.type = "nil"

C11_Witness ==
  /\ ReIPPrepared
  /\ ReIPProfilesFound
  /\ Len(unit.ctxUpHosts) = 1
  /\ Len(unit.nodeNamesToReIP) = 2
  /\ unit.err.type = "ReIPNoClusterQuorumError"
  /\ unit.RequestCollection = EmptyMap

ReIPSucceeded == ReIPPrepared /\ unit.err = NoError

ReIPDistinctNames ==
  \A i, j \in DOMAIN unit.nodeNamesToReIP :
     i # j => unit.nodeNamesToReIP[i] # unit.nodeNamesToReIP[j]

\* the up hosts of the first len(nodeNamesToReIP) positions
ReIPPairedHosts == {unit.ctxUpHosts[i] : i \in DOMAIN unit.nodeNamesToReIP}

\* the PUT of node name n built from the new address t and its network profile
ReIPExpectedRequest(n, t) ==
  [Method |-> "PUT",
   endpoint |-> <<"nodes", n, "ip">>,
   host |-> t,
   controlHost |-> NetworkProfile(t).Address,
   broadcast |-> NetworkProfile(t).Broadcast]

\* C31 as stated: after a successful re-IP prepare RequestCollection holds
\* exactly one PUT per node to re-IP, each keyed by a distinct up host (no up
\* host has two pairings, no node name is sent twice), and the host,
\* control-host and broadcast parameters of each request come from the network
\* profile of that node's new address.
C31_OnePutPerNode ==
  ReIPSucceeded =>
    LET names == unit.nodeNamesToReIP
        req == unit.RequestCollection
    IN /\ DOMAIN req \subseteq {unit.ctxUpHosts[i] : i \in DOMAIN unit.ctxUpHosts}
       /\ \A h \in DOMAIN req : req[h].Method = "PUT"
       /\ \A i \in DOMAIN names :
            /\ Cardinality({h \in DOMAIN req : req[h].endpoint[2] = names[i]}) = 1
            /\ \E h \in DOMAIN req :
                 req[h] = ReIPExpectedRequest(names[i], unit.hostToReIP[i])
       /\ Cardinality(DOMAIN req) = Cardinality({names[i] : i \in DOMAIN names})

\* C31 amended: after a successful re-IP prepare RequestCollection holds one
\* PUT per entry of the list of node names, the i-th keyed by the i-th up host,
\* so no up host has two pairings; its parameters come from the network profile
\* of the address paired last with that name.  When the node names are pairwise
\* distinct this is exactly one PUT per node, no node name is sent twice and
\* every request carries the profile of that node's new address; a name listed
\* twice is sent twice, both times with its last address.
C31_OnePutPerListEntry ==
  ReIPSucceeded =>
    LET names == unit.nodeNamesToReIP
        req == unit.RequestCollection
    IN /\ DOMAIN req = ReIPPairedHosts
       /\ Cardinality(DOMAIN req) = Len(names)
       /\ \A i \in DOMAIN names :
            \E j \in DOMAIN names :
               /\ names[j] = names[i]
               /\ \A k \in DOMAIN names : names[k] = names[i] => k <= j
               /\ req[unit.ctxUpHosts[i]] =
                    ReIPExpectedRequest(names[i], unit.hostToReIP[j])
       /\ ReIPDistinctNames =>
            \A i \in DOMAIN names :
               /\ Cardinality({h \in DOMAIN req : req[h].endpoint[2] = names[i]}) = 1
               /\ req[unit.ctxUpHosts[i]] =
                    ReIPExpectedRequest(names[i], unit.hostToReIP[i])

C31_Witness ==
  /\ ReIPSucceeded
  /\ ReIPDistinctNames
  /\ Len(unit.nodeNamesToReIP) = 2
  /\ unit.hostToReIP[1] # unit.hostToReIP[2]
  /\ Cardinality(DOMAIN unit.RequestCollection) = 2
  /\ unit.sent = DOMAIN unit.RequestCollection

\* ============================================================ remove node
\* VRemoveNode from the point where the VDB was read from the running
\* database: setInitiator, produceRemoveNodeInstructions, then the engine.
NoHost == 0

\* addresses of the command line and of the database
DBHosts == 1..NumDBHosts

\* lists of hosts of S without repetition
ListsOver(S) ==
  {l \in SeqsUpTo(S, Cardinality(S)) : \A i, j \in DOMAIN l : i # j => l[i] # l[j]}

ksafetyThreshold == 3

Range(f) == {f[i] : i \in DOMAIN f}

\* the string ""
EmptyName == <<>>

\* vdb.HostNodeMap[host].Name; a host that is no key yields the zero value
NodeNameOf(hostList, host) == IF host \in hostList THEN <<"node", host>> ELSE EmptyName

\* the initiator for a list of primary up nodes and hosts to skip: the first
\* node of the list that is not to be skipped, "" when there is none
RECURSIVE getInitiatorHost(_, _)
getInitiatorHost(primaryUpNodes, hostsToSkip) ==
  IF primaryUpNodes = <<>> THEN NoHost
  ELSE IF Head(primaryUpNodes) \notin Range(hostsToSkip) THEN Head(primaryUpNodes)
  ELSE getInitiatorHost(Tail(primaryUpNodes), hostsToSkip)

\* mutant: nothing is skipped
HostsToSkip_None(hostsToRemove) == <<>>

\* setInitiator: getInitiatorHost(upPrimaryNodes, o.HostsToRemove)
HostsToSkip(hostsToRemove) == hostsToRemove

\* an op constructor with credentials: util.ValidateUsernameAndPassword fails
\* when a password is to be used and the user name is empty
MakeOpFails(useHTTPPassword, userNameEmpty) == useHTTPPassword /\ userNameEmpty

\* a ClusterOp of the list: its kind, the node it is about, the hosts it is
\* sent to and whether it attaches the password
ClusterOp(name, target, hosts, useHTTPPassword) ==
  [name |-> name, target |-> target, hosts |-> hosts, useHTTPPassword |-> useHTTPPassword]

\* mutant: no node is marked ephemeral
ProduceMarkEphemeralNodeOps_None(targetHosts, hosts, useHTTPPassword, hostList) == <<>>

\* produceMarkEphemeralNodeOps: one op per element of targetHosts
ProduceMarkEphemeralNodeOps(targetHosts, hosts, useHTTPPassword, hostList) ==
  [i \in DOMAIN targetHosts |->
     ClusterOp("HTTPSMarkEphemeralNodeOp", NodeNameOf(hostList, targetHosts[i]), hosts,
               useHTTPPassword)]

\* mutant: one drop op for the whole list of targets
ProduceDropNodeOps_Batched(targetHosts, hosts, useHTTPPassword, hostList) ==
  IF targetHosts = <<>> THEN <<>>
  ELSE <<ClusterOp("HTTPSDropNodeOp", NodeNameOf(hostList, targetHosts[1]), hosts,
                   useHTTPPassword)>>

\* produceDropNodeOps: one op per element of targetHosts
ProduceDropNodeOps(targetHosts, hosts, useHTTPPassword, hostList) ==
  [i \in DOMAIN targetHosts |->
     ClusterOp("HTTPSDropNodeOp", NodeNameOf(hostList, targetHosts[i]), hosts,
               useHTTPPassword)]

\* produceRemoveNodeInstructions, no constructor failing
ProduceRemoveNodeInstructions(hostList, isEon, hostsToRemove, initiator, usePassword) ==
  LET inputHost == <<initiator>> IN
    <<ClusterOp("HTTPCheckNodesExistOp", EmptyName, inputHost, usePassword)>>
    \o (IF Cardinality(hostList) - Len(hostsToRemove) < ksafetyThreshold
        THEN <<ClusterOp("HTTPSMarkDesignKSafeOp", EmptyName, inputHost, usePassword)>>
        ELSE <<>>)
    \o ProduceMarkEphemeralNodeOps(hostsToRemove, inputHost, usePassword, hostList)
    \o <<ClusterOp("HTTPSRebalanceClusterOp", EmptyName, inputHost, usePassword),
         ClusterOp("HTTPSpreadRemoveNodeOp", EmptyName, inputHost, usePassword)>>
    \o ProduceDropNodeOps(hostsToRemove, inputHost, usePassword, hostList)
    \o <<ClusterOp("NMADeleteDirectoriesOp", EmptyName, hostsToRemove, FALSE),
         ClusterOp("HTTPSReloadSpreadOp", EmptyName, inputHost, TRUE)>>
    \o (IF isEon
        THEN <<ClusterOp("HTTPSSyncCatalogOp", EmptyName, inputHost, TRUE)>>
        ELSE <<>>)

\* the options and the VDB at the call of setInitiator
InitRemoveNode ==
  /\ BaseIdle
  /\ \E hl \in (SUBSET DBHosts) \ {{}} :
       unit \in
         {[kind |-> "removeNode", pc |-> "start",
           HostList |-> hl, UpPrimaryNodes |-> up, IsEon |-> eon,
           HostsToRemove |-> rm, usePassword |-> pw, userNameEmpty |-> ue,
           Initiator |-> NoHost, instructions |-> <<>>, built |-> FALSE,
           ran |-> FALSE, err |-> "none"] :
            up \in ListsOver(hl), eon \in BOOLEAN,
            rm \in SeqsUpTo(DBHosts, MaxTargets), pw \in BOOLEAN, ue \in BOOLEAN}

\* options.setInitiator(vdb.UpPrimaryNodes) and the return of VRemoveNode on
\* its error
RemoveNodeSetInitiator ==
  /\ unit.kind = "removeNode"
  /\ unit.pc = "start"
  /\ LET initiatorHost == getInitiatorHost(unit.UpPrimaryNodes,
                                           HostsToSkip(unit.HostsToRemove))
     IN IF initiatorHost = NoHost
        THEN unit' = [unit EXCEPT !.pc = "returned", !.err = "error"]
        ELSE unit' = [unit EXCEPT !.pc = "initiator", !.Initiator = initiatorHost]
  /\ UNCHANGED baseVars

\* produceRemoveNodeInstructions and the return of VRemoveNode on its error
RemoveNodeProduceInstructions ==
  /\ unit.kind = "removeNode"
  /\ unit.pc = "initiator"
  /\ IF MakeOpFails(unit.usePassword, unit.userNameEmpty)
          \/ MakeOpFails(TRUE, unit.userNameEmpty)
     THEN unit' = [unit EXCEPT !.pc = "returned", !.err = "error"]
     ELSE unit' = [unit EXCEPT !.pc = "built", !.built = TRUE,
                     !.instructions =
                        ProduceRemoveNodeInstructions(unit.HostList, unit.IsEon,
                          unit.HostsToRemove, unit.Initiator, unit.usePassword)]
  /\ UNCHANGED baseVars

\* clusterOpEngine.Run() and the return of VRemoveNode
RemoveNodeRun ==
  /\ unit.kind = "removeNode"
  /\ unit.pc = "built"
  /\ \E runError \in {"nil", "error"} :
       unit' = [unit EXCEPT !.pc = "returned", !.ran = TRUE, !.err = runError]
  /\ UNCHANGED baseVars

NextRemoveNode ==
  \/ RemoveNodeSetInitiator
  \/ RemoveNodeProduceInstructions
  \/ RemoveNodeRun

SpecRemoveNode == InitRemoveNode /\ [][NextRemoveNode]_vars

\* positions of the primary up nodes that are not to be removed
EligiblePositions ==
  {i \in DOMAIN unit.UpPrimaryNodes :
     unit.UpPrimaryNodes[i] \notin Range(unit.HostsToRemove)}

\* C12: initiator selection returns the first primary up host that is not
\* excluded, never an excluded one; when every primary up host is excluded it
\* fails, no initiator is set and no operation list is built; the initiator
\* of remove-node is never a host to remove.
C12_InitiatorNotExcluded ==
  (unit.kind = "removeNode" /\ unit.pc # "start") =>
    IF EligiblePositions = {}
    THEN /\ unit.pc = "returned"
         /\ unit.err = "error"
         /\ unit.Initiator = NoHost
         /\ ~unit.built
         /\ ~unit.ran
    ELSE /\ \E i \in EligiblePositions :
              /\ unit.Initiator = unit.UpPrimaryNodes[i]
              /\ \A j \in EligiblePositions : i <= j
         /\ unit.Initiator \notin Range(unit.HostsToRemove)

C12_Witness ==
  /\ unit.kind = "removeNode"
  /\ unit.pc = "built"
  /\ unit.UpPrimaryNodes = <<1, 2>>
  /\ unit.HostsToRemove = <<1>>
  /\ unit.Initiator = 2

DropNodeOps == SelectSeq(unit.instructions, LAMBDA o : o.name = "HTTPSDropNodeOp")

\* C13: the operation list for removing k hosts holds exactly k drop-node
\* operations, the i-th named after the node of the i-th host to remove, each
\* sent to the initiator alone; distinct hosts of the database give distinct
\* nodes, so no operation drops two nodes.
C13_OneDropPerTarget ==
  (unit.kind = "removeNode" /\ unit.built) =>
    /\ Len(DropNodeOps) = Len(unit.HostsToRemove)
    /\ \A i \in DOMAIN DropNodeOps :
         /\ DropNodeOps[i].hosts = <<unit.Initiator>>
         /\ unit.HostsToRemove[i] \in unit.HostList =>
              DropNodeOps[i].target = <<"node", unit.HostsToRemove[i]>>
    /\ \A i, j \in DOMAIN DropNodeOps :
         (/\ i # j
          /\ unit.HostsToRemove[i] # unit.HostsToRemove[j]
          /\ {unit.HostsToRemove[i], unit.HostsToRemove[j]} \subseteq unit.HostList)
           => DropNodeOps[i].target # DropNodeOps[j].target

C13_Witness ==
  /\ unit.kind = "removeNode"
  /\ unit.built
  /\ Len(unit.HostsToRemove) = 2
  /\ unit.HostsToRemove[1] # unit.HostsToRemove[2]
  /\ Range(unit.HostsToRemove) \subseteq unit.HostList
  /\ Len(DropNodeOps) = 2

\* the names of the instructions of the remove-node list, in order
RemoveNodeOpNames == [i \in DOMAIN unit.instructions |-> unit.instructions[i].name]

\* positions of the instructions of the list with the name given
RemoveNodePositions(name) == {i \in DOMAIN unit.instructions : unit.instructions[i].name = name}

\* the name given, k times
Repeated(name, k) == [i \in 1..k |-> name]

\* fewer hosts are left after the removal than K-safety needs
BelowKSafety == Cardinality(unit.HostList) - Len(unit.HostsToRemove) < ksafetyThreshold

\* C29: the remove-node list holds, in this order, check nodes exist, mark
\* design K-safe 0 (only when the hosts left after the removal are fewer than
\* the K-safety threshold), one mark-ephemeral per target, rebalance, remove
\* from spread, one drop-node per target, delete directories (on the removed
\* hosts only), reload spread, sync catalog (Eon only); every drop-node comes
\* after every mark-ephemeral and before delete directories.
C29_RemoveNodeOrder ==
  (unit.kind = "removeNode" /\ unit.built) =>
    /\ RemoveNodeOpNames =
         <<"HTTPCheckNodesExistOp">>
         \o (IF BelowKSafety THEN <<"HTTPSMarkDesignKSafeOp">> ELSE <<>>)
         \o Repeated("HTTPSMarkEphemeralNodeOp", Len(unit.HostsToRemove))
         \o <<"HTTPSRebalanceClusterOp", "HTTPSpreadRemoveNodeOp">>
         \o Repeated("HTTPSDropNodeOp", Len(unit.HostsToRemove))
         \o <<"NMADeleteDirectoriesOp", "HTTPSReloadSpreadOp">>
         \o (IF unit.IsEon THEN <<"HTTPSSyncCatalogOp">> ELSE <<>>)
    /\ \A d \in RemoveNodePositions("HTTPSDropNodeOp") :
         /\ \A e \in RemoveNodePositions("HTTPSMarkEphemeralNodeOp") : e < d
         /\ \A x \in RemoveNodePositions("NMADeleteDirectoriesOp") : d < x
    /\ \A x \in RemoveNodePositions("NMADeleteDirectoriesOp") :
         unit.instructions[x].hosts = unit.HostsToRemove

C29_Witness ==
  /\ unit.kind = "removeNode"
  /\ unit.built
  /\ unit.IsEon
  /\ BelowKSafety
  /\ Len(unit.HostsToRemove) = 2
  /\ Cardinality(RemoveNodePositions("HTTPSMarkEphemeralNodeOp")) = 2
  /\ Cardinality(RemoveNodePositions("HTTPSDropNodeOp")) = 2
  /\ Len(unit.instructions) = 11

\* =============================================================== add node
\* VAddNode: the VDB is read from the running database, the requirements are
\* checked, the initiator is set, the new hosts are added to the VDB, the
\* instructions are produced and run.

\* vdb.doNodesExist(nodes, numOfNodes): numOfNodes of the given hosts are
\* nodes of the database
doNodesExist(hostList, nodes, numOfNodes) ==
  Cardinality({i \in DOMAIN nodes : nodes[i] \in hostList}) = numOfNodes

\* mutant: only the first host to add is looked at
CheckAddNodeRequirements_FirstOnly(hostList, hostsToAdd) ==
  hostsToAdd # <<>> /\ hostsToAdd[1] \in hostList

\* checkAddNodeRequirements returns an error
CheckAddNodeRequirements(hostList, hostsToAdd) == ~doNodesExist(hostList, hostsToAdd, 0)

\* makeNMAVerticaVersionOp
VersionOp(hosts, sameVersion) ==
  [name |-> "NMAVerticaVersionOp", target |-> EmptyName, hosts |-> hosts,
   useHTTPPassword |-> FALSE, RequireSameVersion |-> sameVersion]

\* mutant: the version check is put before the health check
AddNodeFirstOps_VersionFirst(activeHosts) ==
  <<VersionOp(activeHosts, TRUE), ClusterOp("NMAHealthOp", EmptyName, activeHosts, FALSE)>>

\* the first two instructions of produceAddNodeInstructions
AddNodeFirstOps(activeHosts) ==
  <<ClusterOp("NMAHealthOp", EmptyName, activeHosts, FALSE), VersionOp(activeHosts, TRUE)>>

\* produceTransferConfigOps: vertica.conf and spread.conf are downloaded from
\* the source host and uploaded to the new hosts
ProduceTransferConfigOps(sourceConfigHost, newNodeHosts) ==
  <<ClusterOp("NMADownloadConfigOp", EmptyName, sourceConfigHost, FALSE),
    ClusterOp("NMAUploadConfigOp", EmptyName, newNodeHosts, FALSE),
    ClusterOp("NMADownloadConfigOp", EmptyName, sourceConfigHost, FALSE),
    ClusterOp("NMAUploadConfigOp", EmptyName, newNodeHosts, FALSE)>>

\* !*options.SkipRebalanceShards
RebalanceShardsWanted(skipRebalanceShards) == ~skipRebalanceShards

\* prepareAdditionalEonInstructions, no constructor failing: what it appends
PrepareAdditionalEonInstructions(isEon, useDepot, skipRebalance, initiatorHost, newHosts, usePassword) ==
  (IF useDepot
   THEN <<ClusterOp("HTTPSCreateNodesDepotOp", EmptyName, newHosts, usePassword)>>
   ELSE <<>>)
  \o (IF isEon
      THEN <<ClusterOp("HTTPSSyncCatalogOp", EmptyName, initiatorHost, TRUE)>>
           \o (IF RebalanceShardsWanted(skipRebalance)
               THEN <<ClusterOp("HTTPSRebalanceSubclusterShardsOp", EmptyName,
                                initiatorHost, usePassword)>>
               ELSE <<>>)
      ELSE <<>>)

\* produceAddNodeInstructions, no constructor failing
ProduceAddNodeInstructions(isEon, useDepot, skipRebalance, initiator, newHosts, usePassword) ==
  LET initiatorHost == <<initiator>>
      activeHosts == initiatorHost \o newHosts
  IN AddNodeFirstOps(activeHosts)
     \o (IF isEon
         THEN <<ClusterOp("HTTPSFindSubclusterOrDefaultOp", EmptyName, initiatorHost,
                          usePassword)>>
         ELSE <<>>)
     \o <<ClusterOp("NMAPrepareDirectoriesOp", EmptyName, newHosts, FALSE),
          ClusterOp("NMANetworkProfileOp", EmptyName, activeHosts, FALSE),
          ClusterOp("HTTPSCreateNodeOp", EmptyName, initiatorHost, usePassword),
          ClusterOp("HTTPSReloadSpreadOp", EmptyName, initiatorHost, TRUE),
          ClusterOp("NMAReadCatalogEditorOp", EmptyName, initiatorHost, FALSE)>>
     \o ProduceTransferConfigOps(initiatorHost, newHosts)
     \o <<ClusterOp("NMAStartNodeOp", EmptyName, newHosts, FALSE),
          ClusterOp("HTTPSPollNodeStateOp", EmptyName, newHosts, usePassword)>>
     \o PrepareAdditionalEonInstructions(isEon, useDepot, skipRebalance,
                                         initiatorHost, newHosts, usePassword)

\* the options after validateAnalyzeOptions, and the running database
InitAddNode ==
  /\ BaseIdle
  /\ \E hl \in (SUBSET DBHosts) \ {{}} :
       unit \in
         {[kind |-> "addNode", pc |-> "start",
           dbHosts |-> hl, dbPrimaryUpNodes |-> up, NewHosts |-> nh,
           eonOptionsValid |-> ev, IsEon |-> eon, UseDepot |-> depot,
           SkipRebalanceShards |-> skip, usePassword |-> pw, userNameEmpty |-> ue,
           HostList |-> {}, PrimaryUpNodes |-> <<>>, Initiator |-> NoHost,
           requests |-> <<>>, added |-> FALSE, instructions |-> <<>>,
           built |-> FALSE, ran |-> FALSE, err |-> "none",
           networkProfiles |-> {}, profileResult |-> "none", createNode |-> "none",
           broadcast |-> <<>>] :
            up \in ListsOver(hl), nh \in SeqsUpTo(DBHosts, MaxTargets), ev \in BOOLEAN,
            eon \in BOOLEAN, depot \in BOOLEAN, skip \in BOOLEAN, pw \in BOOLEAN,
            ue \in BOOLEAN}

\* getVDBFromRunningDB: the nodes of the database are fetched over HTTPS; on
\* an error VAddNode returns it
AddNodeGetVDB ==
  /\ unit.kind = "addNode"
  /\ unit.pc = "start"
  /\ \/ unit' = [unit EXCEPT !.pc = "vdb", !.requests = Append(@, "GET nodes"),
                   !.HostList = unit.dbHosts, !.PrimaryUpNodes = unit.dbPrimaryUpNodes]
     \/ unit' = [unit EXCEPT !.pc = "returned", !.requests = Append(@, "GET nodes"),
                   !.err = "error"]
  /\ UNCHANGED baseVars

\* completeVDBSetting, validateEonOptions and checkAddNodeRequirements; on an
\* error VAddNode returns it
AddNodeCheckRequirements ==
  /\ unit.kind = "addNode"
  /\ unit.pc = "vdb"
  /\ IF ~unit.eonOptionsValid \/ CheckAddNodeRequirements(unit.HostList, unit.NewHosts)
     THEN unit' = [unit EXCEPT !.pc = "returned", !.err = "error"]
     ELSE unit' = [unit EXCEPT !.pc = "checked"]
  /\ UNCHANGED baseVars

\* options.setInitiator(vdb.PrimaryUpNodes): no host is skipped
AddNodeSetInitiator ==
  /\ unit.kind = "addNode"
  /\ unit.pc = "checked"
  /\ LET initiatorHost == getInitiatorHost(unit.PrimaryUpNodes, <<>>)
     IN IF initiatorHost = NoHost
        THEN unit' = [unit EXCEPT !.pc = "returned", !.err = "error"]
        ELSE unit' = [unit EXCEPT !.pc = "initiator", !.Initiator = initiatorHost]
  /\ UNCHANGED baseVars

\* vdb.addHosts(options.NewHosts)
AddNodeAddHosts ==
  /\ unit.kind = "addNode"
  /\ unit.pc = "initiator"
  /\ unit' = [unit EXCEPT !.pc = "added", !.added = TRUE,
                !.HostList = @ \cup Range(unit.NewHosts)]
  /\ UNCHANGED baseVars

\* produceAddNodeInstructions: an op constructor fails on the credentials
\* (reload spread is always made with useHTTPPassword = true) or for another
\* reason, and VAddNode returns the error, or the list is built
AddNodeProduceInstructions ==
  /\ unit.kind = "addNode"
  /\ unit.pc = "added"
  /\ \/ /\ ~MakeOpFails(unit.usePassword, unit.userNameEmpty)
        /\ ~MakeOpFails(TRUE, unit.userNameEmpty)
        /\ unit' = [unit EXCEPT !.pc = "built", !.built = TRUE,
                      !.instructions =
                         ProduceAddNodeInstructions(unit.IsEon, unit.UseDepot,
                           unit.SkipRebalanceShards, unit.Initiator, unit.NewHosts,
                           unit.usePassword)]
     \/ unit' = [unit EXCEPT !.pc = "returned", !.err = "error"]
  /\ UNCHANGED baseVars

\* the orders in which a range over a Go map may yield the hosts of S
MapRangeOrders(S) ==
  {l \in [1..Cardinality(S) -> S] : \A i, j \in DOMAIN l : i # j => l[i] # l[j]}

\* updateQueryParams: whether it panics, and op.RequestParams after it
UpdateQueryParams(op, networkProfiles) ==
  IF \E i \in DOMAIN op.hosts : op.hosts[i] \notin networkProfiles
  THEN [panic |-> TRUE, RequestParams |-> op.RequestParams]
  ELSE IF op.hosts = <<>>
  THEN [panic |-> FALSE, RequestParams |-> op.RequestParams]
  ELSE [panic |-> FALSE,
        RequestParams |-> [op.RequestParams EXCEPT
                             !.broadcast = NetworkProfile(op.hosts[Len(op.hosts)]).Broadcast]]

\* what a host does with GET network-profiles: be unreachable, answer a body
\* that is not a network profile, answer its profile
ProfileAnswerKinds == {"unreachable", "garbage", "profile"}

\* the loop of NMANetworkProfileOp.processResult over the hosts in the order
\* given: a host that is not passing clears success, a body that does not
\* parse ends the loop, a profile is put in allNetProfiles
RECURSIVE NetworkProfileLoop(_, _, _)
NetworkProfileLoop(order, results, st) ==
  IF order = <<>> THEN st
  ELSE LET host == Head(order)
       IN IF results[host] = "unreachable"
          THEN NetworkProfileLoop(Tail(order), results, [st EXCEPT !.success = FALSE])
          ELSE IF results[host] = "garbage"
          THEN [st EXCEPT !.exception = TRUE]
          ELSE NetworkProfileLoop(Tail(order), results,
                                  [st EXCEPT !.allNetProfiles = @ \cup {host}])

\* mutant: the op passes although a host did not answer
NetworkProfileProcessResult_PassOnFailure(order, results, networkProfiles) ==
  LET st == NetworkProfileLoop(order, results,
                               [success |-> TRUE, exception |-> FALSE, allNetProfiles |-> {}])
  IN IF st.exception
     THEN [result |-> EXCEPTION, networkProfiles |-> networkProfiles]
     ELSE [result |-> SUCCESS, networkProfiles |-> st.allNetProfiles]

\* NMANetworkProfileOp.processResult: the result of the op and
\* execContext.networkProfiles (the hosts that have a profile) after it
NetworkProfileProcessResult(order, results, networkProfiles) ==
  LET st == NetworkProfileLoop(order, results,
                               [success |-> TRUE, exception |-> FALSE, allNetProfiles |-> {}])
  IN IF st.exception
     THEN [result |-> EXCEPTION, networkProfiles |-> networkProfiles]
     ELSE [result |-> IF st.success THEN SUCCESS ELSE FAILURE,
           networkProfiles |-> st.allNetProfiles]

\* the position of the first operation of that name in the list, 0 when the
\* list has none
OpPosition(instructions, name) ==
  IF \E i \in DOMAIN instructions : instructions[i].name = name
  THEN CHOOSE i \in DOMAIN instructions :
         /\ instructions[i].name = name
         /\ \A j \in 1..(i - 1) : instructions[j].name # name
  ELSE 0

\* clusterOpEngine.Run() and the return of VAddNode: an operation before the
\* network profile fails, or the network profile op runs; when it passes the
\* create node op is prepared from the profiles it saved, and then the rest
\* of the list passes or fails
AddNodeRun ==
  /\ unit.kind = "addNode"
  /\ unit.pc = "built"
  /\ LET profileOp == unit.instructions[OpPosition(unit.instructions, "NMANetworkProfileOp")]
         createOp == unit.instructions[OpPosition(unit.instructions, "HTTPSCreateNodeOp")]
         returned(runError) ==
           [unit EXCEPT !.pc = "returned", !.ran = TRUE, !.err = runError,
                        !.requests = Append(@, "add node instructions")]
     IN \/ unit' = returned("error")
        \/ \E answers \in [Range(profileOp.hosts) -> ProfileAnswerKinds] :
             \E order \in MapRangeOrders(DOMAIN answers) :
               LET r == NetworkProfileProcessResult(order, answers, unit.networkProfiles)
                   u == UpdateQueryParams(
                          [hosts |-> createOp.hosts,
                           RequestParams |-> [hosts |-> unit.NewHosts, broadcast |-> <<>>]],
                          r.networkProfiles)
                   ranProfile(runError) ==
                     [returned(runError) EXCEPT !.profileResult = r.result,
                                                !.networkProfiles = r.networkProfiles]
               IN IF r.result # SUCCESS
                  THEN unit' = ranProfile("error")
                  ELSE IF u.panic
                  THEN unit' = [ranProfile("panic") EXCEPT !.createNode = "panic"]
                  ELSE \E runError \in {"nil", "error"} :
                         unit' = [ranProfile(runError) EXCEPT
                                    !.createNode = "prepared",
                                    !.broadcast = u.RequestParams.broadcast]
  /\ UNCHANGED baseVars

NextAddNode ==
  \/ AddNodeGetVDB
  \/ AddNodeCheckRequirements
  \/ AddNodeSetInitiator
  \/ AddNodeAddHosts
  \/ AddNodeProduceInstructions
  \/ AddNodeRun

SpecAddNode == InitAddNode /\ [][NextAddNode]_vars

\* the pre-check of VAddNode is over and a host to add is a node of the database
AddNodeOfExistingHost ==
  /\ unit.kind = "addNode"
  /\ unit.pc \notin {"start", "vdb"}
  /\ \E i \in DOMAIN unit.NewHosts : unit.NewHosts[i] \in unit.dbHosts

\* C14 as stated: add-node with a host that is already a node of the database
\* returns an error from the pre-check before the host is added to the VDB,
\* before the operation list is built and before any HTTP request is
\* dispatched.
C14_NoRequestBeforePreCheck ==
  AddNodeOfExistingHost =>
    /\ unit.pc = "returned"
    /\ unit.err = "error"
    /\ ~unit.added
    /\ ~unit.built
    /\ unit.requests = <<>>

\* C14 amended: add-node with a host that is already a node of the database
\* returns an error from the pre-check before the host is added to the VDB,
\* before the operation list is built and before any operation of the add-node
\* list is dispatched; the only requests made are those by which the VDB was
\* read from the running database.
C14_NoOperationBeforePreCheck ==
  AddNodeOfExistingHost =>
    /\ unit.pc = "returned"
    /\ unit.err = "error"
    /\ ~unit.added
    /\ ~unit.built
    /\ ~unit.ran
    /\ unit.requests = <<"GET nodes">>

C14_Witness ==
  /\ AddNodeOfExistingHost
  /\ unit.HostList = {1, 2}
  /\ unit.NewHosts = <<3, 2>>
  /\ unit.eonOptionsValid
  /\ unit.err = "error"

\* the names of the instructions of the list, in order
AddNodeOpNames == [i \in DOMAIN unit.instructions |-> unit.instructions[i].name]

\* the order of the add-node operations, every optional one included
AddNodeOrder ==
  <<"NMAHealthOp", "NMAVerticaVersionOp", "HTTPSFindSubclusterOrDefaultOp",
    "NMAPrepareDirectoriesOp", "NMANetworkProfileOp", "HTTPSCreateNodeOp",
    "HTTPSReloadSpreadOp", "NMAReadCatalogEditorOp",
    "NMADownloadConfigOp", "NMAUploadConfigOp", "NMADownloadConfigOp", "NMAUploadConfigOp",
    "NMAStartNodeOp", "HTTPSPollNodeStateOp",
    "HTTPSCreateNodesDepotOp", "HTTPSSyncCatalogOp", "HTTPSRebalanceSubclusterShardsOp">>

\* whether the list of this run is to hold the operation
AddNodeOpExpected(name) ==
  CASE name = "HTTPSFindSubclusterOrDefaultOp" -> unit.IsEon
    [] name = "HTTPSCreateNodesDepotOp" -> unit.UseDepot
    [] name = "HTTPSSyncCatalogOp" -> unit.IsEon
    [] name = "HTTPSRebalanceSubclusterShardsOp" -> unit.IsEon /\ ~unit.SkipRebalanceShards
    [] OTHER -> TRUE

\* operations that only read: the two NMA checks
AddNodeReadOnlyOps == {"NMAHealthOp", "NMAVerticaVersionOp"}

ContextReads(name) ==
  CASE name = "HTTPSCreateNodeOp" -> {"networkProfiles"}
    [] name = "NMAStartNodeOp" -> {"nmaVDatabase"}
    [] OTHER -> {}

\* the fields of the execution context an operation writes
ContextWrites(name) ==
  CASE name = "NMANetworkProfileOp" -> {"networkProfiles"}
    [] name = "NMAReadCatalogEditorOp" -> {"hostsWithLatestCatalog", "nmaVDatabase"}
    [] OTHER -> {}

AddNodeHTTPSOps ==
  {"HTTPSFindSubclusterOrDefaultOp", "HTTPSCreateNodeOp", "HTTPSReloadSpreadOp",
   "HTTPSPollNodeStateOp", "HTTPSCreateNodesDepotOp", "HTTPSSyncCatalogOp",
   "HTTPSRebalanceSubclusterShardsOp"}

\* C39: every HTTPS operation of the add-node list is built with the
\* password setting of the options: it attaches the user name and the
\* password to its requests if and only if options.usePassword is set, reload
\* spread and sync catalog included.
C39_PasswordSettingOfOptions ==
  (unit.kind = "addNode" /\ unit.built) =>
    \A i \in DOMAIN unit.instructions :
       unit.instructions[i].name \in AddNodeHTTPSOps =>
         (unit.instructions[i].useHTTPPassword <=> unit.usePassword)

\* ======================================================= remove subcluster
\* VRemoveSubcluster called up to MaxScCalls times on one database:
\* removeScPreCheck, the inline VRemoveNode when the subcluster has nodes,
\* then dropSubcluster. The database persists between the calls.
SCNames == {"default_subcluster", "sc1", "sc2"}

\* the hosts of S as a list in ascending order
RECURSIVE SortedList(_)
SortedList(S) ==
  IF S = {} THEN <<>>
  ELSE LET least == CHOOSE x \in S : \A y \in S : x <= y
       IN <<least>> \o SortedList(S \ {least})

ScNoError == [type |-> "nil", name |-> ""]

ScPlainError == [type |-> "error", name |-> ""]

\* rfc7807.New(rfc7807.SubclusterNotFound)
SubclusterNotFound == [type |-> "SubclusterNotFound", name |-> ""]

\* &removeDefaultSubclusterError{Name: options.SCName}
removeDefaultSubclusterError(scName) ==
  [type |-> "removeDefaultSubclusterError", name |-> scName]

\* what the find-subcluster op can answer: it fails when no host answers;
\* a subcluster that is not in the catalog "does not exist in the database"
FindSubclusterOutcomes(subclusters, scName) ==
  {"failure"} \cup (IF scName \in subclusters THEN {"ok"} ELSE {"notfound"})

\* mutant: the text of the engine error is never recognised
IsNotFoundError_Never(findResult) == FALSE

\* strings.Contains(err.Error(), "does not exist in the database")
IsNotFoundError(findResult) == findResult = "notfound"

\* mutant: the default subcluster is not recognised
IsDefaultSubcluster_Never(scName, defaultSCName) == FALSE

\* options.SCName == clusterOpEngine.execContext.defaultSCName
IsDefaultSubcluster(scName, defaultSCName) == scName = defaultSCName

\* the hosts of the database whose node is in the subcluster
HostsOfSubcluster(nodeSc, scName) == {h \in DOMAIN nodeSc : nodeSc[h] = scName}

\* a call of VRemoveSubcluster is entered
ScCallEntered(u, n, ok) ==
  [u EXCEPT !.pc = "start", !.calls = n, !.prevOk = ok, !.vdbPrimaryUp = <<>>,
     !.defaultSCName = "", !.findResult = "none", !.hostsToRemove = <<>>,
     !.removeNodeRan = FALSE, !.dropRan = FALSE, !.dropInitiator = NoHost,
     !.err = ScNoError]

\* an Eon or enterprise database with its subclusters and nodes, and the first
\* call of VRemoveSubcluster for one subcluster name
InitRemoveSc ==
  /\ BaseIdle
  /\ unit \in
       {[kind |-> "removeSc", pc |-> "start", calls |-> 1, prevOk |-> FALSE,
         subclusters |-> scs, defaultSC |-> dsc, nodeSc |-> nsc,
         primaryUp |-> SortedList(up), IsEon |-> eon, SCName |-> name,
         vdbPrimaryUp |-> <<>>, defaultSCName |-> "", findResult |-> "none",
         hostsToRemove |-> <<>>, removeNodeRan |-> FALSE, dropRan |-> FALSE,
         dropInitiator |-> NoHost, err |-> ScNoError] :
          scs \in SUBSET SCNames, dsc \in SCNames, nsc \in [DBHosts -> SCNames],
          up \in SUBSET DBHosts, eon \in BOOLEAN, name \in SCNames}
  /\ unit.defaultSC \in unit.subclusters
  /\ \A h \in DBHosts : unit.nodeSc[h] \in unit.subclusters

\* removeScPreCheck and the return of VRemoveSubcluster on its error
RemoveScPreCheck ==
  /\ unit.kind = "removeSc"
  /\ unit.pc = "start"
  /\ \/ \* getVDBFromRunningDB fails
        unit' = [unit EXCEPT !.pc = "returned", !.err = ScPlainError]
     \/ \* the database is not Eon
        /\ ~unit.IsEon
        /\ unit' = [unit EXCEPT !.pc = "returned", !.err = ScPlainError,
                      !.vdbPrimaryUp = unit.primaryUp]
     \/ /\ unit.IsEon
        /\ \E r \in FindSubclusterOutcomes(unit.subclusters, unit.SCName) :
             IF r # "ok"
             THEN unit' = [unit EXCEPT !.pc = "returned", !.findResult = r,
                             !.vdbPrimaryUp = unit.primaryUp,
                             !.err = IF IsNotFoundError(r) THEN SubclusterNotFound
                                     ELSE ScPlainError]
             ELSE IF IsDefaultSubcluster(unit.SCName, unit.defaultSC)
             THEN unit' = [unit EXCEPT !.pc = "returned", !.findResult = r,
                             !.vdbPrimaryUp = unit.primaryUp,
                             !.defaultSCName = unit.defaultSC,
                             !.err = removeDefaultSubclusterError(unit.SCName)]
             ELSE \E l \in MapRangeOrders(HostsOfSubcluster(unit.nodeSc, unit.SCName)) :
                    unit' = [unit EXCEPT !.pc = "prechecked", !.findResult = r,
                               !.vdbPrimaryUp = unit.primaryUp,
                               !.defaultSCName = unit.defaultSC,
                               !.hostsToRemove = l]
  /\ UNCHANGED baseVars

\* if needRemoveNodes { vdb, err = vcc.VRemoveNode(&removeNodeOpt) }
RemoveScRemoveNodes ==
  /\ unit.kind = "removeSc"
  /\ unit.pc = "prechecked"
  /\ IF unit.hostsToRemove = <<>>
     THEN unit' = [unit EXCEPT !.pc = "removed"]
     ELSE IF getInitiatorHost(unit.primaryUp, HostsToSkip(unit.hostsToRemove)) = NoHost
     THEN unit' = [unit EXCEPT !.pc = "returned", !.err = ScPlainError]
     ELSE \/ unit' = [unit EXCEPT !.pc = "removed", !.removeNodeRan = TRUE,
                        !.nodeSc = [h \in (DOMAIN unit.nodeSc) \ Range(unit.hostsToRemove)
                                      |-> unit.nodeSc[h]],
                        !.primaryUp = SelectSeq(unit.primaryUp,
                                        LAMBDA h : h \notin Range(unit.hostsToRemove))]
          \/ unit' = [unit EXCEPT !.pc = "returned", !.removeNodeRan = TRUE,
                        !.err = ScPlainError]
  /\ UNCHANGED baseVars

\* dropSubcluster and the return of VRemoveSubcluster: the drop request goes
\* to the initiator chosen among vdb.PrimaryUpNodes
RemoveScDropSubcluster ==
  /\ unit.kind = "removeSc"
  /\ unit.pc = "removed"
  /\ LET initiator == getInitiatorHost(unit.vdbPrimaryUp, <<>>)
     IN IF initiator = NoHost
        THEN unit' = [unit EXCEPT !.pc = "returned", !.err = ScPlainError]
        ELSE \/ unit' = [unit EXCEPT !.pc = "returned", !.dropRan = TRUE,
                           !.dropInitiator = initiator,
                           !.subclusters = @ \ {unit.SCName}]
             \/ unit' = [unit EXCEPT !.pc = "returned", !.dropRan = TRUE,
                           !.dropInitiator = initiator,
                           !.err = ScPlainError]
  /\ UNCHANGED baseVars

\* the caller invokes VRemoveSubcluster again with the same options
RemoveScCallAgain ==
  /\ unit.kind = "removeSc"
  /\ unit.pc = "returned"
  /\ unit.calls < MaxScCalls
  /\ unit' = ScCallEntered(unit, unit.calls + 1, unit.err = ScNoError)
  /\ UNCHANGED baseVars

NextRemoveSc ==
  \/ RemoveScPreCheck
  \/ RemoveScRemoveNodes
  \/ RemoveScDropSubcluster
  \/ RemoveScCallAgain

SpecRemoveSc == InitRemoveSc /\ [][NextRemoveSc]_vars

\* C15: when the subcluster to remove is the default subcluster found by the
\* find-subcluster op, VRemoveSubcluster returns removeDefaultSubclusterError
\* carrying that name, and neither the inline remove-node nor the
\* drop-subcluster operation is run.
C15_DefaultSubclusterRefused ==
  (/\ unit.kind = "removeSc"
   /\ unit.pc # "start"
   /\ unit.findResult = "ok"
   /\ unit.SCName = unit.defaultSCName) =>
    /\ unit.pc = "returned"
    /\ unit.err.type = "removeDefaultSubclusterError"
    /\ unit.err.name = unit.SCName
    /\ ~unit.removeNodeRan
    /\ ~unit.dropRan

C15_Witness ==
  /\ unit.kind = "removeSc"
  /\ unit.pc = "returned"
  /\ unit.findResult = "ok"
  /\ unit.SCName = "sc1"
  /\ unit.defaultSCName = "sc1"
  /\ unit.err = removeDefaultSubclusterError("sc1")

\* C16: when find-subcluster reports that the subcluster does not exist in the
\* database, VRemoveSubcluster returns the typed SubclusterNotFound error and
\* runs neither remove-node nor drop-subcluster; a call that follows a
\* successful one never finds the subcluster, never succeeds and runs neither
\* operation.
C16_MissingSubclusterNotFound ==
  /\ (unit.kind = "removeSc" /\ unit.findResult = "notfound") =>
       /\ unit.pc = "returned"
       /\ unit.err.type = "SubclusterNotFound"
       /\ ~unit.removeNodeRan
       /\ ~unit.dropRan
  /\ (unit.kind = "removeSc" /\ unit.prevOk) =>
       /\ unit.findResult # "ok"
       /\ unit.pc \in {"start", "returned"}
       /\ unit.pc = "returned" => unit.err.type # "nil"
       /\ ~unit.removeNodeRan
       /\ ~unit.dropRan

C16_Witness ==
  /\ unit.kind = "removeSc"
  /\ unit.prevOk
  /\ unit.calls = 2
  /\ unit.pc = "returned"
  /\ unit.findResult = "notfound"
  /\ unit.err = SubclusterNotFound

\* C40: in remove subcluster the drop-subcluster request is sent only after
\* the inline remove node, which is run if and only if the subcluster has at
\* least one node, has succeeded, and the initiator that receives it is a
\* primary UP host that is not one of the hosts just removed.
C40_DropByRemainingPrimaryUpHost ==
  (unit.kind = "removeSc" /\ unit.dropRan) =>
    /\ unit.removeNodeRan <=> unit.hostsToRemove # <<>>
    /\ Range(unit.hostsToRemove) \cap DOMAIN unit.nodeSc = {}
    /\ unit.dropInitiator \in Range(unit.primaryUp)
    /\ unit.dropInitiator \notin Range(unit.hostsToRemove)

\* ================================================================= quorum
\* OpBase.hasQuorum applied to a number of hosts and a number of primary nodes.

\* quorumCount := (primaryNodeCount + 1) / 2, the division of unsigned integers
QuorumCount(primaryNodeCount) == (primaryNodeCount + 1) \div 2

\* OpBase.hasQuorum
hasQuorum(nHosts, primaryNodeCount) == ~(nHosts < QuorumCount(primaryNodeCount))

InitQuorum ==
  /\ BaseIdle
  /\ unit \in [kind : {"quorum"}, pc : {"start"}, hostCount : 0..MaxCount,
               primaryNodeCount : 0..MaxCount, result : {FALSE}]

\* a caller asks op.hasQuorum(hostCount, primaryNodeCount)
QuorumCheck ==
  /\ unit.kind = "quorum"
  /\ unit.pc = "start"
  /\ unit' = [unit EXCEPT !.pc = "returned",
                !.result = hasQuorum(unit.hostCount, unit.primaryNodeCount)]
  /\ UNCHANGED baseVars

NextQuorum == QuorumCheck

SpecQuorum == InitQuorum /\ [][NextQuorum]_vars

\* the least integer that is at least n / 2
CeilHalf(n) == (n + 1) \div 2

\* C17: hasQuorum(hostCount, primaryNodeCount) is true exactly when hostCount
\* is at least the ceiling of (primaryNodeCount + 1) / 2, that is when the
\* hosts are a strict majority of the primary nodes.
C17_QuorumIsStrictMajority ==
  (unit.kind = "quorum" /\ unit.pc = "returned") =>
    (unit.result <=> unit.hostCount >= CeilHalf(unit.primaryNodeCount + 1))

\* ======================================================= NMA version check
\* NMAVerticaVersionOp: prepare builds one GET per host, execute dispatches
\* them and processResult walks ResultCollection and then HostVersionMap, each
\* in the order the range over the Go map yields.
NoVersion == "NO_VERSION"

\* version strings a host may report
Versions == {"", NoVersion, "v1", "v2"}

\* what a host answers: the status of the result, whether the content parses
\* (util.GetJSONLogErrors returns no error), whether the parsed object has the
\* key "vertica_version", and its value
HostResult(status, parses, hasVersion, version) ==
  [status |-> status, parses |-> parses, hasVersion |-> hasVersion, version |-> version]

VersionResults ==
  {HostResult(FAILURE, FALSE, FALSE, ""), HostResult(EXCEPTION, FALSE, FALSE, ""),
   HostResult(SUCCESS, FALSE, FALSE, ""), HostResult(SUCCESS, TRUE, FALSE, "")}
  \cup {HostResult(SUCCESS, TRUE, TRUE, v) : v \in Versions}

\* maps from a set of hosts to answers
ResultMaps(answers) == UNION {[hs -> answers] : hs \in SUBSET Hosts}

\* NMAVerticaVersionOp.parseAndCheckResponse: the error it returns
ParseAndCheckResponse(result) ==
  IF ~result.parses THEN "parse error"
  ELSE IF ~result.hasVersion THEN "Unable to get vertica version"
  ELSE "nil"

\* logResponseCollectVersions over the hosts in the order given: the error and
\* HostVersionMap
RECURSIVE LogResponseCollectVersions(_, _, _)
LogResponseCollectVersions(order, results, versionMap) ==
  IF order = <<>> THEN [err |-> "nil", HostVersionMap |-> versionMap]
  ELSE LET host == Head(order)
           result == results[host]
       IN IF ~isPassing(result.status)
          THEN [err |-> "result not passing", HostVersionMap |-> versionMap]
          ELSE IF ParseAndCheckResponse(result) # "nil"
          THEN [err |-> ParseAndCheckResponse(result), HostVersionMap |-> versionMap]
          ELSE LogResponseCollectVersions(Tail(order), results,
                                          MapPut(versionMap, host, result.version))

\* mutant: an empty version string is taken as a version
IsEmptyVersion_Never(version) == FALSE

\* version == ""
IsEmptyVersion(version) == version = ""

\* logCheckVersionMatch over the hosts in the order given, versionStr being
\* the reference so far
RECURSIVE LogCheckVersionMatch(_, _, _, _)
LogCheckVersionMatch(order, versionMap, versionStr, requireSameVersion) ==
  IF order = <<>>
  THEN IF versionStr = NoVersion THEN "No version collected for all hosts" ELSE "nil"
  ELSE LET version == versionMap[Head(order)]
       IN IF IsEmptyVersion(version) THEN "No version collected for host"
          ELSE IF versionStr = NoVersion
          THEN LogCheckVersionMatch(Tail(order), versionMap, version, requireSameVersion)
          ELSE IF version # versionStr /\ requireSameVersion
          THEN "Found mismatched versions"
          ELSE LogCheckVersionMatch(Tail(order), versionMap, versionStr, requireSameVersion)

\* the op as makeNMAVerticaVersionOp leaves it, and what its hosts will answer
InitVersion ==
  /\ BaseIdle
  /\ unit \in
       {[kind |-> "version", pc |-> "made", hosts |-> DOMAIN answers,
         answers |-> answers, RequireSameVersion |-> same,
         RequestCollection |-> {}, ResultCollection |-> EmptyMap,
         HostVersionMap |-> EmptyMap, err |-> "none"] :
          answers \in ResultMaps(VersionResults), same \in BOOLEAN}

\* NMAVerticaVersionOp.prepare
VersionPrepare ==
  /\ unit.kind = "version"
  /\ unit.pc = "made"
  /\ unit' = [unit EXCEPT !.pc = "prepared", !.RequestCollection = unit.hosts]
  /\ UNCHANGED baseVars

\* NMAVerticaVersionOp.execute: runExecute fills ResultCollection with one
\* result per request, processResult checks them
VersionExecute ==
  /\ unit.kind = "version"
  /\ unit.pc = "prepared"
  /\ LET results == [h \in unit.RequestCollection |-> unit.answers[h]]
     IN \E o1 \in MapRangeOrders(DOMAIN results) :
          LET c == LogResponseCollectVersions(o1, results, EmptyMap)
          IN IF c.err # "nil"
             THEN unit' = [unit EXCEPT !.pc = "executed", !.ResultCollection = results,
                             !.HostVersionMap = c.HostVersionMap, !.err = c.err]
             ELSE \E o2 \in MapRangeOrders(DOMAIN c.HostVersionMap) :
                    unit' = [unit EXCEPT !.pc = "executed",
                               !.ResultCollection = results,
                               !.HostVersionMap = c.HostVersionMap,
                               !.err = LogCheckVersionMatch(o2, c.HostVersionMap,
                                         NoVersion, unit.RequireSameVersion)]
  /\ UNCHANGED baseVars

NextVersion == VersionPrepare \/ VersionExecute

SpecVersion == InitVersion /\ [][NextVersion]_vars

VersionExecuted == unit.kind = "version" /\ unit.pc = "executed"

\* the host gave a passing result that carries a version string
ReportsVersion(h) ==
  /\ unit.answers[h].status = SUCCESS
  /\ unit.answers[h].parses
  /\ unit.answers[h].hasVersion

\* C18: the version check fails whenever at least one host returns an empty
\* version string, a result that is not passing, or a response without
\* vertica_version, whether or not the same version is required.
C18_EmptyVersionFails ==
  (/\ VersionExecuted
   /\ \E h \in unit.hosts : ~ReportsVersion(h) \/ unit.answers[h].version = "")
    => unit.err # "nil"

C18_Witness ==
  /\ VersionExecuted
  /\ ~unit.RequireSameVersion
  /\ Cardinality(unit.hosts) = 2
  /\ \E h \in unit.hosts : ReportsVersion(h) /\ unit.answers[h].version = ""
  /\ \E h \in unit.hosts : ReportsVersion(h) /\ unit.answers[h].version = "v1"
  /\ unit.err = "No version collected for host"

\* every host reports the same version string, and it is not empty
AllSameNonEmptyVersion ==
  /\ \A h \in unit.hosts : ReportsVersion(h) /\ unit.answers[h].version # ""
  /\ \A g, h \in unit.hosts : unit.answers[g].version = unit.answers[h].version

\* C19: when the same version is required the check fails if and only if the
\* hosts do not all report the same non-empty version, whichever host is seen
\* first; when it is not required and every host reports a non-empty version,
\* the check succeeds even when the versions differ.
C19_SameVersionRequired ==
  (VersionExecuted /\ unit.hosts # {}) =>
    /\ unit.RequireSameVersion => (unit.err = "nil" <=> AllSameNonEmptyVersion)
    /\ (/\ ~unit.RequireSameVersion
        /\ \A h \in unit.hosts : ReportsVersion(h) /\ unit.answers[h].version # "")
         => unit.err = "nil"

\* ======================================================= NMA health check
\* NMAHealthOp: Prepare builds one GET per host, Execute dispatches them and
\* processResult walks ResultCollection.
HealthResults ==
  {HostResult(FAILURE, FALSE, FALSE, ""), HostResult(EXCEPTION, FALSE, FALSE, ""),
   HostResult(SUCCESS, FALSE, FALSE, ""), HostResult(SUCCESS, TRUE, FALSE, "")}

\* mutant: a passing result is not parsed
HostHealthy_NoParse(result) == isPassing(result.status)

\* the body of the loop of processResult leaves success untouched
HostHealthy(result) == isPassing(result.status) /\ result.parses

\* NMAHealthOp.processResult over the hosts in the order given
RECURSIVE HealthProcessResult(_, _, _)
HealthProcessResult(order, results, success) ==
  IF order = <<>> THEN (IF success THEN SUCCESS ELSE FAILURE)
  ELSE HealthProcessResult(Tail(order), results,
                           IF HostHealthy(results[Head(order)]) THEN success ELSE FALSE)

\* the op as MakeNMAHealthOp leaves it, what its hosts will answer, and
\* whether the dispatch itself will fail
InitHealth ==
  /\ BaseIdle
  /\ unit \in
       {[kind |-> "health", pc |-> "made", hosts |-> DOMAIN answers,
         answers |-> answers, sendFails |-> sf,
         RequestCollection |-> {}, ResultCollection |-> EmptyMap,
         prepareResult |-> "none", executeResult |-> "none"] :
          answers \in ResultMaps(HealthResults), sf \in BOOLEAN}
  \* sendRequest fails only on a request whose host has no adapter
  /\ unit.sendFails => unit.hosts # {}

\* NMAHealthOp.Prepare
HealthPrepare ==
  /\ unit.kind = "health"
  /\ unit.pc = "made"
  /\ unit' = [unit EXCEPT !.pc = "prepared", !.RequestCollection = unit.hosts,
                !.prepareResult = SUCCESS]
  /\ UNCHANGED baseVars

\* NMAHealthOp.Execute
HealthExecute ==
  /\ unit.kind = "health"
  /\ unit.pc = "prepared"
  /\ IF unit.sendFails
     THEN unit' = [unit EXCEPT !.pc = "executed", !.executeResult = EXCEPTION]
     ELSE LET results == [h \in unit.RequestCollection |-> unit.answers[h]]
          IN \E order \in MapRangeOrders(DOMAIN results) :
               unit' = [unit EXCEPT !.pc = "executed", !.ResultCollection = results,
                          !.executeResult = HealthProcessResult(order, results, TRUE)]
  /\ UNCHANGED baseVars

NextHealth == HealthPrepare \/ HealthExecute

SpecHealth == InitHealth /\ [][NextHealth]_vars

SuccessCode == 200

UnauthorizedCode == 401

InternalErrorCode == 500

CmdTypes == {"SandboxCmd", "StartNodeCommand", "StopDBCmd", "StopSubclusterCmd", "UnsandboxCmd"}

NodeUpState == "UP"

NodeDownState == "DOWN"

MainClusterSandbox == ""

TargetDB == "test_db"

OtherDB == "other_db"

Subclusters == {"", "sc1"}

Sandboxes == {MainClusterSandbox, "sb1"}

\* one entry of node_list in the response of GET /nodes
NodeState(address, state, database, subcluster, sandbox) ==
  [Address |-> address, State |-> state, Database |-> database,
   Subcluster |-> subcluster, Sandbox |-> sandbox]

\* state, subcluster and sandbox of a node: an UP node of the main cluster or
\* of a sandbox, or a DOWN node of the main cluster
NodeKinds ==
  [State : {NodeUpState}, Subcluster : Subclusters, Sandbox : Sandboxes]
    \cup [State : {NodeDownState}, Subcluster : Subclusters, Sandbox : {MainClusterSandbox}]

\* the node lists of the target database: nodes on some of the hosts, listed
\* by ascending address
NodeLists ==
  UNION {{[i \in 1..Cardinality(S) |->
             LET address == SortedList(S)[i]
             IN NodeState(address, f[address].State, TargetDB,
                          f[address].Subcluster, f[address].Sandbox)] :
            f \in [S -> NodeKinds]} : S \in SUBSET Hosts}

\* what a host does with GET /nodes: answer 401, 500 or 404, be unreachable,
\* answer a body that is not a node list, answer the node list of the target
\* database, answer that list as seen from its own sandbox (the nodes of the
\* other sandboxes are UNKNOWN to it), or answer as the single UP node of
\* another database
AnswerKinds ==
  {"401", "500", "404", "unreachable", "garbage", "nodes", "sandboxView", "foreign"}

NodeUnknownState == "UNKNOWN"

\* the sandbox a host belongs to according to a node list
SandboxOfHost(host, view) ==
  IF \E i \in DOMAIN view : view[i].Address = host
  THEN view[CHOOSE i \in DOMAIN view : view[i].Address = host].Sandbox
  ELSE MainClusterSandbox

\* the node list as the nodes of one sandbox see it
SandboxView(sandbox, view) ==
  [i \in DOMAIN view |->
     IF view[i].Sandbox = sandbox THEN view[i]
     ELSE [view[i] EXCEPT !.State = NodeUnknownState]]

\* the HostHTTPResult the adapter builds for a host
HostHTTPResult(status, code, err, parses, nodeList) ==
  [status |-> status, statusCode |-> code, err |-> err, parses |-> parses,
   NodeList |-> nodeList]

HTTPResultOf(kind, host, view) ==
  CASE kind = "401" -> HostHTTPResult(FAILURE, UnauthorizedCode, "unauthorized", FALSE, <<>>)
    [] kind = "500" -> HostHTTPResult(FAILURE, InternalErrorCode, "internal error", FALSE, <<>>)
    [] kind = "404" -> HostHTTPResult(FAILURE, 404, "not found", FALSE, <<>>)
    [] kind = "unreachable" -> HostHTTPResult(EXCEPTION, 0, "connection refused", FALSE, <<>>)
    [] kind = "garbage" -> HostHTTPResult(SUCCESS, SuccessCode, "nil", FALSE, <<>>)
    [] kind = "nodes" -> HostHTTPResult(SUCCESS, SuccessCode, "nil", TRUE, view)
    [] kind = "sandboxView" ->
         HostHTTPResult(SUCCESS, SuccessCode, "nil", TRUE,
                        SandboxView(SandboxOfHost(host, view), view))
    [] kind = "foreign" ->
         HostHTTPResult(SUCCESS, SuccessCode, "nil", TRUE,
                        <<NodeState(host, NodeUpState, OtherDB, "", MainClusterSandbox)>>)

\* hostResult.err == nil
HTTPIsPassing(hostResult) == hostResult.err = "nil"

\* hostResult.status == FAILURE
HTTPIsFailing(hostResult) == hostResult.status = FAILURE

IsUnauthorizedRequest(hostResult) == hostResult.statusCode = UnauthorizedCode

IsInternalError(hostResult) == hostResult.statusCode = InternalErrorCode

\* mutant: a 401 is not taken as an answer of a running HTTP service
IsHTTPRunning_No401(hostResult) ==
  HTTPIsPassing(hostResult) \/ IsInternalError(hostResult)

IsHTTPRunning(hostResult) ==
  HTTPIsPassing(hostResult) \/ IsUnauthorizedRequest(hostResult) \/ IsInternalError(hostResult)

\* mutant: StopDB is content with the first response that has up hosts
isCompleteScanRequired_NoStopDB(cmdType) ==
  cmdType \in {"SandboxCmd", "UnsandboxCmd", "StopSubclusterCmd"}

isCompleteScanRequired(cmdType) ==
  cmdType \in {"SandboxCmd", "StopDBCmd", "UnsandboxCmd", "StopSubclusterCmd"}

\* the addresses of a node list
AddressesOf(nodeList) == {nodeList[i].Address : i \in DOMAIN nodeList}

\* validateHosts: the error it returns
ValidateHosts(op, nodeList) ==
  IF \E i \in DOMAIN nodeList : nodeList[i].Database # op.DBName
  THEN "unexpected database is running on hosts"
  ELSE IF op.hosts \ AddressesOf(nodeList) # {}
  THEN "database does not contain any nodes on the hosts"
  ELSE "nil"

\* collectUpHosts over the rest of a node list. st holds what the caller
\* passed by reference and op.sandbox; upMainNodeFound, foundSC and err are
\* the locals of the call.
RECURSIVE CollectUpHosts(_, _, _, _, _, _)
CollectUpHosts(op, nodeList, st, upMainNodeFound, foundSC, err) ==
  IF nodeList = <<>>
  THEN [st |-> st,
        err |-> IF ~foundSC /\ op.cmdType = "StopSubclusterCmd"
                THEN "cannot find subcluster" ELSE err]
  ELSE LET node == Head(nodeList)
           isUp == node.State = NodeUpState
           found == foundSC \/ (op.scName # "" /\ node.Subcluster = op.scName)
           toSandboxInfo ==
             /\ isUp
             /\ op.cmdType = "StopDBCmd"
             /\ (node.Sandbox # MainClusterSandbox \/ ~upMainNodeFound)
           s1 == IF isUp
                 THEN [st EXCEPT !.upHosts = @ \cup {node.Address},
                                 !.upScInfo = MapPut(@, node.Address, node.Subcluster),
                                 !.sandboxInfo = IF toSandboxInfo
                                                 THEN MapPut(@, node.Address, node.Sandbox)
                                                 ELSE @]
                 ELSE st
           inSc == op.scName = node.Subcluster
           s2 == IF ~inSc THEN s1
                 ELSE IF isUp
                 THEN IF op.asNodeInfoFails
                      THEN [s1 EXCEPT !.sandbox = node.Sandbox]
                      ELSE [s1 EXCEPT !.sandbox = node.Sandbox,
                                      !.upScNodes = @ \cup {node.Address},
                                      !.scNodes = @ \cup {node.Address}]
                 ELSE IF node.State = NodeDownState
                 THEN [s1 EXCEPT !.sandbox = node.Sandbox,
                                 !.scNodes = @ \cup {node.Address}]
                 ELSE [s1 EXCEPT !.sandbox = node.Sandbox]
           err2 == IF inSc /\ isUp
                   THEN (IF op.asNodeInfoFails THEN "asNodeInfo error" ELSE "nil")
                   ELSE err
       IN IF node.Database # op.DBName
          THEN [st |-> st, err |-> "database is running on host rather than database"]
          ELSE CollectUpHosts(op, Tail(nodeList), s2,
                              upMainNodeFound \/ toSandboxInfo, found, err2)

\* collectUnsandboxingHosts over the rest of a node list
RECURSIVE CollectUnsandboxingHosts(_, _, _, _)
CollectUnsandboxingHosts(op, nodeList, st, mainNodeFound) ==
  IF nodeList = <<>> THEN st
  ELSE LET node == Head(nodeList)
           isUp == node.State = NodeUpState
           sameSandbox == isUp /\ node.Sandbox = st.sandbox /\ node.Subcluster # op.scName
           firstMain == isUp /\ node.Sandbox = "" /\ ~mainNodeFound
           i1 == IF sameSandbox THEN MapPut(st.sandboxInfo, node.Address, node.Sandbox)
                 ELSE st.sandboxInfo
           i2 == IF firstMain THEN MapPut(i1, node.Address, "") ELSE i1
       IN CollectUnsandboxingHosts(op, Tail(nodeList), [st EXCEPT !.sandboxInfo = i2],
                                   mainNodeFound \/ firstMain)

\* the locals of processResult before its loop, and op.sandbox
GetUpLocals(op) ==
  [allErrs |-> {}, upHosts |-> {}, upScInfo |-> EmptyMap, exceptionHosts |-> {},
   downHosts |-> {}, sandboxInfo |-> EmptyMap, upScNodes |-> {}, scNodes |-> {},
   sandbox |-> op.sandbox, scanned |-> {}, exit |-> "loop"]

\* the loop of processResult over the hosts in the order given. allErrs is
\* the set of the errors joined; exit tells how the loop was left.
RECURSIVE GetUpLoop(_, _, _, _)
GetUpLoop(op, order, results, st) ==
  IF order = <<>> THEN [st EXCEPT !.exit = "done"]
  ELSE LET host == Head(order)
           result == results[host]
           s0 == [st EXCEPT !.scanned = @ \cup {host},
                            !.allErrs = IF ~HTTPIsPassing(result)
                                        THEN @ \cup {result.err} ELSE @]
           validateErr == IF op.cmdType \in {"StopDBCmd", "StopSubclusterCmd"}
                          THEN ValidateHosts(op, result.NodeList) ELSE "nil"
           c == CollectUpHosts(op, result.NodeList, s0, FALSE, FALSE, "nil")
           u == IF op.cmdType = "UnsandboxCmd"
                THEN CollectUnsandboxingHosts(op, result.NodeList, c.st, FALSE)
                ELSE c.st
       IN IF HTTPIsFailing(result) /\ IsHTTPRunning(result)
          THEN GetUpLoop(op, Tail(order), results,
                         [s0 EXCEPT !.exceptionHosts = @ \cup {host}])
          ELSE IF ~HTTPIsPassing(result)
          THEN GetUpLoop(op, Tail(order), results,
                         [s0 EXCEPT !.downHosts = @ \cup {host}])
          ELSE IF ~result.parses
          THEN GetUpLoop(op, Tail(order), results,
                         [s0 EXCEPT !.allErrs = @ \cup {"fail to parse result"}])
          ELSE IF validateErr # "nil"
          THEN [s0 EXCEPT !.allErrs = @ \cup {validateErr}, !.exit = "break"]
          ELSE IF c.err # "nil"
          THEN [c.st EXCEPT !.allErrs = @ \cup {c.err}, !.exit = "return"]
          ELSE IF u.upHosts # {} /\ ~isCompleteScanRequired(op.cmdType)
          THEN [u EXCEPT !.exit = "break"]
          ELSE GetUpLoop(op, Tail(order), results, u)

\* checkSandboxUp
checkSandboxUp(sandboxingInfo, sandbox) ==
  \E address \in DOMAIN sandboxingInfo : sandboxingInfo[address] = sandbox

\* mutant: up nodes outside the subcluster are enough for StopSubcluster
ScAlreadyDown_Never(op, upHosts, nodesInfo) == FALSE

\* up nodes were found in the database but none in the subcluster
ScAlreadyDown(op, upHosts, nodesInfo) ==
  op.cmdType = "StopSubclusterCmd" /\ upHosts # {} /\ nodesInfo = {}

\* processHostLists: ignoreErrors, the execution context and what it prints
ProcessHostLists(op, st, execContext) ==
  LET ctx == [execContext EXCEPT !.upScInfo = st.upScInfo]
      published == [ctx EXCEPT !.upHosts = SortedList(st.upHosts)]
      sandboxDown ==
        IF st.sandbox # "" /\ op.cmdType # "UnsandboxCmd"
             /\ ~checkSandboxUp(st.sandboxInfo, st.sandbox)
        THEN {"no UP nodes in the sandbox"} ELSE {}
      mainDown ==
        IF op.mainCluster /\ ~checkSandboxUp(st.sandboxInfo, "")
        THEN {"no UP nodes in the main cluster"} ELSE {}
      failToCall == IF st.exceptionHosts # {} THEN {"fail to call https endpoint"} ELSE {}
      notRunning == IF st.downHosts # {} THEN {"did not detect database running"} ELSE {}
  IN IF ScAlreadyDown(op, st.upHosts, ctx.nodesInfo)
     THEN [ignoreErrors |-> FALSE, execContext |-> ctx,
           logged |-> {"subcluster is already down"}]
     ELSE IF st.upHosts # {}
     THEN [ignoreErrors |-> TRUE, execContext |-> published,
           logged |-> sandboxDown \cup mainDown]
     ELSE [ignoreErrors |-> op.noUpHostsOk, execContext |-> ctx,
           logged |-> sandboxDown \cup mainDown \cup failToCall \cup notRunning]

\* mutant: the errors collected are returned even when there are up hosts
IgnoresErrors_Never(ignoreErrors) == FALSE

\* if ignoreErrors { return nil }
IgnoresErrors(ignoreErrors) == ignoreErrors

\* processResult: the error returned (the set of the errors joined, empty for
\* nil), the execution context, what was printed, and the locals at the end
GetUpProcessResult(op, order, results, execContext) ==
  LET st == GetUpLoop(op, order, results, GetUpLocals(op))
      ctx == [execContext EXCEPT !.nodesInfo = st.upScNodes,
                                 !.scNodesInfo = st.scNodes,
                                 !.upHostsToSandboxes = st.sandboxInfo]
      p == ProcessHostLists(op, st, ctx)
  IN IF st.exit = "return"
     THEN [err |-> st.allErrs, execContext |-> execContext, logged |-> {}, locals |-> st]
     ELSE [err |-> IF IgnoresErrors(p.ignoreErrors) THEN {}
                   ELSE st.allErrs \cup {"no up nodes detected"},
           execContext |-> p.execContext, logged |-> p.logged, locals |-> st]

\* the execution context before the op runs
GetUpExecContext ==
  [nodesInfo |-> {}, scNodesInfo |-> {}, upHostsToSandboxes |-> EmptyMap,
   upScInfo |-> EmptyMap, upHosts |-> <<>>]

\* the op as makeHTTPSGetUpNodesOp or makeHTTPSGetUpScNodesOp leaves it, the
\* node list of the database, what each host will do and whether asNodeInfo
\* will reject the nodes
InitGetUp ==
  /\ BaseIdle
  /\ unit \in
       {[kind |-> "getUpNodes", pc |-> "made", DBName |-> TargetDB,
         hosts |-> DOMAIN answers, noUpHostsOk |-> FALSE, cmdType |-> cmdType,
         sandbox |-> "", mainCluster |-> FALSE, scName |-> scName,
         view |-> view, answers |-> answers, asNodeInfoFails |-> bad,
         RequestCollection |-> {}, ResultCollection |-> EmptyMap,
         execContext |-> GetUpExecContext, err |-> {}, logged |-> {},
         locals |-> GetUpLocals([sandbox |-> ""])] :
          answers \in ResultMaps(AnswerKinds), view \in NodeLists,
          cmdType \in CmdTypes, scName \in Subclusters, bad \in BOOLEAN}

\* allowNoUpHosts
GetUpAllowNoUpHosts ==
  /\ unit.kind = "getUpNodes"
  /\ unit.pc = "made"
  /\ ~unit.noUpHostsOk
  /\ unit' = [unit EXCEPT !.noUpHostsOk = TRUE]
  /\ UNCHANGED baseVars

\* prepare: dispatcher.setup(op.hosts) gives every host an adapter, then
\* setupClusterHTTPRequest
GetUpPrepare ==
  /\ unit.kind = "getUpNodes"
  /\ unit.pc = "made"
  /\ unit' = [unit EXCEPT !.pc = "prepared", !.RequestCollection = unit.hosts]
  /\ UNCHANGED baseVars

\* execute: runExecute, then processResult
GetUpExecute ==
  /\ unit.kind = "getUpNodes"
  /\ unit.pc = "prepared"
  /\ LET results == [h \in unit.RequestCollection |->
                       HTTPResultOf(unit.answers[h], h, unit.view)]
     IN \E order \in MapRangeOrders(DOMAIN results) :
          LET r == GetUpProcessResult(unit, order, results, unit.execContext)
          IN unit' = [unit EXCEPT !.pc = "executed", !.ResultCollection = results,
                        !.err = r.err, !.execContext = r.execContext,
                        !.logged = r.logged, !.locals = r.locals,
                        !.sandbox = r.locals.sandbox]
  /\ UNCHANGED baseVars

NextGetUp == GetUpAllowNoUpHosts \/ GetUpPrepare \/ GetUpExecute

SpecGetUp == InitGetUp /\ [][NextGetUp]_vars

GetUpExecuted == unit.kind = "getUpNodes" /\ unit.pc = "executed"

\* a host answers as a node of another database
ForeignAnswered == \E h \in unit.hosts : unit.answers[h] = "foreign"

\* C21: under StopDB the op returns an error whenever the response of any
\* host lists a node whose database name differs from the target database,
\* whatever the order in which the responses are processed and whether or
\* not another response already yielded UP hosts.
C21_ForeignDatabaseIsError ==
  (GetUpExecuted /\ unit.cmdType = "StopDBCmd" /\ ForeignAnswered) => unit.err # {}

\* every host of the op answers 401
AllUnauthorized == unit.hosts # {} /\ \A h \in unit.hosts : unit.answers[h] = "401"

\* the hosts are classified as exception hosts, not as down hosts, and they
\* are not reported as hosts on which the database is not running
ClassifiedAsException ==
  /\ unit.locals.exceptionHosts = unit.hosts
  /\ unit.locals.downHosts = {}
  /\ "did not detect database running" \notin unit.logged

\* C22 as stated: with every host returning 401 the op returns an error that
\* carries the hosts' authorization errors, and the hosts are classified as
\* exception hosts, not as down hosts.
C22_AllUnauthorizedIsError ==
  (GetUpExecuted /\ AllUnauthorized) =>
    ("unauthorized" \in unit.err /\ ClassifiedAsException)

\* C22 (amended): with every host returning 401 the hosts are classified as
\* exception hosts, not as down hosts, and are not reported as hosts on which
\* the database is not running; the op returns an error that carries the
\* authorization errors unless allowNoUpHosts was called, in which case it
\* returns nil.
C22_AllUnauthorizedIsErrorUnlessAllowed ==
  (GetUpExecuted /\ AllUnauthorized) =>
    /\ ClassifiedAsException
    /\ unit.execContext.upHosts = <<>>
    /\ IF unit.noUpHostsOk THEN unit.err = {}
       ELSE {"unauthorized", "no up nodes detected"} \subseteq unit.err

C22_Witness ==
  /\ GetUpExecuted
  /\ Cardinality(unit.hosts) = 2
  /\ AllUnauthorized
  /\ ~unit.noUpHostsOk
  /\ "unauthorized" \in unit.err
  /\ "fail to call https endpoint" \in unit.logged

\* StopSubcluster found UP nodes, none of them in the target subcluster
UpNodesButNoneInSc ==
  /\ GetUpExecuted
  /\ unit.cmdType = "StopSubclusterCmd"
  /\ unit.locals.upHosts # {}
  /\ \A i \in DOMAIN unit.view :
       unit.view[i].State = NodeUpState => unit.view[i].Subcluster # unit.scName

\* the responses list a node of the subcluster the op was made for
ScListed ==
  unit.scName # "" /\ \E i \in DOMAIN unit.view : unit.view[i].Subcluster = unit.scName

C24_NoUpHostsFailsUnlessAllowed ==
  GetUpExecuted =>
    IF unit.locals.upHosts = {}
    THEN IF unit.noUpHostsOk
         THEN unit.err = {} /\ unit.execContext.upHosts = <<>>
         ELSE unit.err # {}
    ELSE unit.err = {}

\* C24 (amended): when collectUpHosts rejected no response, an op that found
\* no UP node returns an error unless allowNoUpHosts was called, in which case
\* it returns nil, and leaves upHosts unset either way; an op that found UP
\* nodes returns nil and publishes them sorted, except under StopSubcluster
\* with no UP node of the subcluster. When collectUpHosts rejected a response
\* (another database, a subcluster that is not listed, a node whose info
\* cannot be built) the op returns an error and leaves upHosts unset,
\* allowNoUpHosts or not.
C24_NoUpHostsFailsUnlessAllowedOrRejected ==
  GetUpExecuted =>
    IF unit.locals.exit = "return"
    THEN unit.err # {} /\ unit.execContext.upHosts = <<>>
    ELSE IF unit.locals.upHosts = {}
    THEN (unit.err = {} <=> unit.noUpHostsOk) /\ unit.execContext.upHosts = <<>>
    ELSE IF unit.cmdType = "StopSubclusterCmd" /\ unit.execContext.nodesInfo = {}
    THEN unit.err # {} /\ unit.execContext.upHosts = <<>>
    ELSE unit.err = {} /\ unit.execContext.upHosts = SortedList(unit.locals.upHosts)

C24_Witness ==
  /\ GetUpExecuted
  /\ unit.noUpHostsOk
  /\ unit.locals.exit = "done"
  /\ Cardinality(unit.locals.downHosts) = 2
  /\ unit.locals.upHosts = {}
  /\ unit.err = {}
  /\ unit.execContext.upHosts = <<>>

\* the hosts whose response passed and parsed
GetUpParsable ==
  {h \in DOMAIN unit.ResultCollection :
     HTTPIsPassing(unit.ResultCollection[h]) /\ unit.ResultCollection[h].parses}

\* the addresses the response of host h lists as UP
GetUpListedUp(h) ==
  LET nodeList == unit.ResultCollection[h].NodeList
  IN {nodeList[i].Address :
        i \in {j \in DOMAIN nodeList : nodeList[j].State = NodeUpState}}

\* the errors with which validateHosts or collectUpHosts reject a response
GetUpRejections ==
  {"unexpected database is running on hosts",
   "database does not contain any nodes on the hosts",
   "database is running on host rather than database",
   "cannot find subcluster", "asNodeInfo error"}

\* the scanned responses that list an UP node
GetUpScannedYielding ==
  {h \in unit.locals.scanned \cap GetUpParsable : GetUpListedUp(h) # {}}

\* for a command that needs no complete scan the loop stops at the first
\* response that lists an UP node
GetUpStopsAtFirstUp ==
  /\ Cardinality(GetUpScannedYielding) <= 1
  /\ GetUpScannedYielding = {} => unit.locals.scanned = unit.hosts

\* the commands that need the complete view of the database
GetUpNeedsCompleteView ==
  unit.cmdType \in {"StopDBCmd", "SandboxCmd", "UnsandboxCmd", "StopSubclusterCmd"}

\* C32 as stated: get-up-nodes scans the response of every host when the
\* command is StopDB, Sandbox, Unsandbox or StopSubcluster, and for every
\* other command stops at the first response that yields an UP host; in the
\* complete-scan case the published upHosts is the union of the UP addresses
\* over all parsable responses.
C32_CompleteScanPublishesUnion ==
  GetUpExecuted =>
    IF GetUpNeedsCompleteView
    THEN /\ unit.locals.scanned = unit.hosts
         /\ Range(unit.execContext.upHosts) = UNION {GetUpListedUp(h) : h \in GetUpParsable}
    ELSE GetUpStopsAtFirstUp

\* C32 amended: for StopDB, Sandbox, Unsandbox and StopSubcluster the loop
\* leaves no response unscanned unless validateHosts or collectUpHosts reject
\* a response, and the rejection is among the errors collected; when no
\* response is rejected every response is scanned and the up hosts collected
\* are the union of the UP addresses over all parsable responses.  For every
\* other command the loop stops at the first response that lists an UP node.
\* What is published is the sorted list of the up hosts collected, unless
\* collectUpHosts rejected a response, there are none, or StopSubcluster found
\* no UP node in the subcluster; then nothing is published.
C32_CompleteScanUnlessRejected ==
  GetUpExecuted =>
    LET st == unit.locals
    IN /\ IF GetUpNeedsCompleteView
          THEN /\ st.exit = "done" =>
                    /\ st.scanned = unit.hosts
                    /\ st.upHosts = UNION {GetUpListedUp(h) : h \in GetUpParsable}
               /\ st.exit # "done" => st.allErrs \cap GetUpRejections # {}
          ELSE GetUpStopsAtFirstUp
       /\ unit.execContext.upHosts =
            IF st.exit # "return" /\ st.upHosts # {}
                 /\ ~ScAlreadyDown(unit, st.upHosts, unit.execContext.nodesInfo)
            THEN SortedList(st.upHosts) ELSE <<>>

\* StopDB with a node of the main cluster and a node of a sandbox, each host
\* answering with the view of its own sandbox: both responses are scanned
\* and the up hosts published are those of both
C32_Witness ==
  /\ GetUpExecuted
  /\ unit.cmdType = "StopDBCmd"
  /\ unit.hosts = {1, 2}
  /\ \A h \in unit.hosts : unit.answers[h] = "sandboxView"
  /\ GetUpListedUp(1) = {1}
  /\ GetUpListedUp(2) = {2}
  /\ unit.locals.scanned = unit.hosts
  /\ unit.execContext.upHosts = <<1, 2>>
  /\ unit.err = {}

\* every host answered with the node list of the database and no response
\* was rejected
GetUpAllListed ==
  /\ GetUpExecuted
  /\ unit.hosts # {}
  /\ \A h \in unit.hosts : unit.answers[h] = "nodes"
  /\ unit.locals.exit = "done"

\* C33: under StopDB the sandbox map built by get-up-nodes holds every UP
\* node of a sandbox and, whenever a node of the main cluster is UP, also an
\* UP node of the main cluster, whatever the order of the nodes in the
\* response (a sandbox node may be listed before the main cluster's nodes).
C33_SandboxMapHasMainNode ==
  (GetUpAllListed /\ unit.cmdType = "StopDBCmd") =>
    LET info == unit.execContext.upHostsToSandboxes
        upNodes == {i \in DOMAIN unit.view : unit.view[i].State = NodeUpState}
    IN /\ \A i \in upNodes :
            unit.view[i].Sandbox # MainClusterSandbox =>
              /\ unit.view[i].Address \in DOMAIN info
              /\ info[unit.view[i].Address] = unit.view[i].Sandbox
       /\ (\E i \in upNodes : unit.view[i].Sandbox = MainClusterSandbox) =>
            \E a \in DOMAIN info : info[a] = MainClusterSandbox

\* ======================================================= check nodes exist
\* HTTPCheckNodesExistOp: prepare builds one GET /nodes per host, execute
\* dispatches them and processResult walks ResultCollection until one host
\* gives a node list.
emptySubcluster == ""

CheckNodesExistCallerTypes == {"AddNode", "RemoveNode"}

\* node lists of a database, Eon (every node in subcluster sc1) or enterprise
\* (no subcluster), with nodes UP or DOWN on some of the hosts
CheckNodesLists ==
  UNION {{[i \in 1..Cardinality(S) |->
             NodeState(SortedList(S)[i], st[SortedList(S)[i]], TargetDB, sc,
                       MainClusterSandbox)] :
            st \in [S -> {NodeUpState, NodeDownState}], sc \in Subclusters} :
         S \in SUBSET Hosts}

CheckNodesAnswerKinds == {"401", "unreachable", "garbage", "nodes"}

\* checkNodesExist
checkNodesExist(targetHosts, nodes) ==
  LET dupHosts == {i \in DOMAIN nodes : nodes[i].Address \in targetHosts}
  IN dupHosts # {}

\* checkDownNode
checkDownNode(nodes) == \E i \in DOMAIN nodes : nodes[i].State = NodeDownState

\* HTTPCheckNodesExistOp.processResult over the hosts in the order given: the
\* errors joined in the error returned, none for nil
RECURSIVE CheckNodesProcessResult(_, _, _, _)
CheckNodesProcessResult(op, order, results, allErrs) ==
  IF order = <<>> THEN allErrs
  ELSE LET result == results[Head(order)]
           exist == checkNodesExist(op.targetHosts, result.NodeList)
       IN IF IsUnauthorizedRequest(result) THEN {"unauthorized request"}
          ELSE IF result.err # "nil"
          THEN CheckNodesProcessResult(op, Tail(order), results,
                                       allErrs \cup {"error of the /nodes endpoint"})
          ELSE IF ~result.parses
          THEN CheckNodesProcessResult(op, Tail(order), results,
                                       allErrs \cup {"fail to parse result"})
          ELSE IF op.caller = "AddNode"
          THEN (IF exist
                THEN {"some of the hosts to add already exists in the database"}
                ELSE {})
          ELSE IF ~exist
          THEN {"some of the nodes to remove do not exist in the database"}
          ELSE IF result.NodeList[1].Subcluster = emptySubcluster
                    /\ checkDownNode(result.NodeList)
          THEN {"all nodes must be up or standby"}
          ELSE {}

\* the op as makeHTTPCheckNodesExistOp leaves it, the node list of the
\* database and what each host will do
InitCheckNodes ==
  /\ BaseIdle
  /\ unit \in
       {[kind |-> "checkNodes", pc |-> "made", hosts |-> DOMAIN answers,
         targetHosts |-> targets, caller |-> caller, view |-> view,
         answers |-> answers, RequestCollection |-> {},
         ResultCollection |-> EmptyMap, err |-> {}] :
          answers \in ResultMaps(CheckNodesAnswerKinds) \ {EmptyMap},
          targets \in (SUBSET Hosts) \ {{}},
          caller \in CheckNodesExistCallerTypes, view \in CheckNodesLists}

\* prepare
CheckNodesPrepare ==
  /\ unit.kind = "checkNodes"
  /\ unit.pc = "made"
  /\ unit' = [unit EXCEPT !.pc = "prepared", !.RequestCollection = unit.hosts]
  /\ UNCHANGED baseVars

\* execute: runExecute, then processResult
CheckNodesExecute ==
  /\ unit.kind = "checkNodes"
  /\ unit.pc = "prepared"
  /\ LET results == [h \in unit.RequestCollection |->
                       HTTPResultOf(unit.answers[h], h, unit.view)]
     IN \E order \in MapRangeOrders(DOMAIN results) :
          unit' = [unit EXCEPT !.pc = "executed", !.ResultCollection = results,
                     !.err = CheckNodesProcessResult(unit, order, results, {})]
  /\ UNCHANGED baseVars

NextCheckNodes == CheckNodesPrepare \/ CheckNodesExecute

SpecCheckNodes == InitCheckNodes /\ [][NextCheckNodes]_vars

\* C25: check-nodes-exist for RemoveNode succeeds only if every target
\* address appears in the node list returned by the database; with at least
\* one target absent from it the op returns an error.
C25_RemoveNodeNeedsEveryTarget ==
  (unit.kind = "checkNodes" /\ unit.pc = "executed" /\ unit.caller = "RemoveNode"
     /\ unit.err = {})
    => unit.targetHosts \subseteq AddressesOf(unit.view)

\* ======================================================= poll node state
\* HTTPSPollNodeStateOp: Prepare builds one GET /nodes per host, Execute
\* dispatches them and processResult loops: it looks at the results with
\* shouldStopPolling, and as long as a host is not up and the time is not over
\* it dispatches the requests again, sleeping before every look but the
\* first. One step per iteration of the loop and one per round of answers
\* collected; at most MaxPollRounds rounds of requests are dispatched by the
\* loop before the time is over.
PollAnswerKinds == {"unreachable", "garbage", "nodes"}

\* NODE_STATE_POLLING_TIMEOUT: not a number, a number of seconds that is over
\* at the first look, or one that leaves time for at least one look
PollTimeouts == {"invalid", "expired", "positive"}

\* the node list every answering host returns when the nodes of the hosts
\* given have the states given
PollNodeList(hosts, states) ==
  [i \in 1..Cardinality(hosts) |->
     NodeState(SortedList(hosts)[i], states[SortedList(hosts)[i]], TargetDB,
               emptySubcluster, MainClusterSandbox)]

\* what the hosts answer to one round of requests
PollResults(hosts) ==
  {[h \in hosts |-> HTTPResultOf(kinds[h], h, PollNodeList(hosts, states))] :
     kinds \in [hosts -> PollAnswerKinds],
     states \in [hosts -> {NodeUpState, NodeDownState}]}

\* the first host of the order whose result is passing, NoHost if none is
RECURSIVE FirstPassing(_, _)
FirstPassing(order, results) ==
  IF order = <<>> THEN NoHost
  ELSE IF HTTPIsPassing(results[Head(order)]) THEN Head(order)
  ELSE FirstPassing(Tail(order), results)

\* the addresses of the nodes of a list that are UP
UpAddresses(nodeList) ==
  {nodeList[i].Address : i \in {j \in DOMAIN nodeList : nodeList[j].State = NodeUpState}}

\* op.upHosts after the loop over the node list of a response
UpHostsAfter(upHosts, nodeList) == upHosts \cup UpAddresses(nodeList)

\* shouldStopPolling with the range over ResultCollection in the order given:
\* what it returns, op.upHosts and op.notUpHosts after it, and the node list
\* it read, if any
ShouldStopPolling(op, order) ==
  LET host == FirstPassing(order, op.ResultCollection)
      result == op.ResultCollection[host]
      up == IF host = NoHost THEN op.upHosts ELSE UpHostsAfter(op.upHosts, result.NodeList)
  IN IF host # NoHost /\ ~result.parses
     THEN [stop |-> FALSE, err |-> "fail to parse result", upHosts |-> op.upHosts,
           notUpHosts |-> op.notUpHosts, examined |-> op.examined]
     ELSE [stop |-> op.allHosts \ up = {}, err |-> "nil", upHosts |-> up,
           notUpHosts |-> op.allHosts \ up,
           examined |-> IF host = NoHost THEN op.examined ELSE result.NodeList]

\* the op as MakeHTTPSPollNodeStateOp leaves it. outstanding counts the
\* requests dispatched and not yet answered, looks the calls of
\* shouldStopPolling by the current processResult, reported is the list of
\* hosts processResult printed as not up.
InitPoll ==
  /\ BaseIdle
  /\ unit \in
       {[kind |-> "poll", pc |-> "made", hosts |-> hs, allHosts |-> hs,
         upHosts |-> {}, notUpHosts |-> {}, timeout |-> t,
         RequestCollection |-> {}, ResultCollection |-> EmptyMap,
         examined |-> <<>>, count |-> 0, calls |-> 0, sleeps |-> 0,
         dispatches |-> 0, result |-> "none", outstanding |-> 0, looks |-> 0,
         cause |-> "none", reported |-> "none"] :
          hs \in SUBSET Hosts, t \in PollTimeouts}

\* Prepare
PollPrepare ==
  /\ unit.kind = "poll"
  /\ unit.pc = "made"
  /\ unit' = [unit EXCEPT !.pc = "prepared", !.RequestCollection = unit.hosts]
  /\ UNCHANGED baseVars

\* sendRequest returns an error only on a request whose host has no adapter
\* in the shared pool
DispatchCanFail(requestCollection) == requestCollection # {}

\* Execute: op.execute dispatches the requests, or fails to
PollExecute ==
  /\ unit.kind = "poll"
  /\ unit.pc = "prepared"
  /\ \/ /\ DispatchCanFail(unit.RequestCollection)
        /\ unit' = [unit EXCEPT !.pc = "returned", !.calls = 1, !.result = EXCEPTION,
                      !.cause = "dispatch"]
     \/ unit' = [unit EXCEPT !.pc = "executing", !.calls = 1, !.count = 0,
                   !.outstanding = Cardinality(unit.RequestCollection)]
  /\ UNCHANGED baseVars

\* sendRequest has collected what every host answered: op.execute returns to
\* Execute, which calls processResult, or to the loop of processResult
PollReceive ==
  /\ unit.kind = "poll"
  /\ unit.pc \in {"executing", "waiting"}
  /\ \E results \in PollResults(unit.RequestCollection) :
       unit' = [unit EXCEPT !.pc = "polling", !.ResultCollection = results,
                  !.outstanding = 0,
                  !.count = IF unit.pc = "waiting" THEN @ + 1 ELSE @]
  /\ UNCHANGED baseVars

\* processResult with a timeout that strconv.Atoi rejects
PollInvalidTimeout ==
  /\ unit.kind = "poll"
  /\ unit.pc = "polling"
  /\ unit.timeout = "invalid"
  /\ unit' = [unit EXCEPT !.pc = "returned", !.result = FAILURE, !.cause = "invalid timeout"]
  /\ UNCHANGED baseVars

\* mutant: the hosts are printed in descending order
ReportedNotUpHosts_Descending(notUpHosts) ==
  [i \in 1..Cardinality(notUpHosts) |->
     SortedList(notUpHosts)[Cardinality(notUpHosts) + 1 - i]]

\* sort.Strings(op.notUpHosts)
ReportedNotUpHosts(notUpHosts) == SortedList(notUpHosts)

\* the loop of processResult finds that the time is over
PollTimeIsOver ==
  /\ unit.kind = "poll"
  /\ unit.pc = "polling"
  /\ \/ unit.timeout = "expired"
     \/ unit.timeout = "positive" /\ unit.count > 0
  /\ unit' = [unit EXCEPT !.pc = "returned", !.result = FAILURE, !.cause = "time is over",
                !.reported = ReportedNotUpHosts(unit.notUpHosts)]
  /\ UNCHANGED baseVars

\* one iteration of the loop of processResult while the time is not over, up
\* to its return or to the dispatch of the next round of requests
PollIterate ==
  /\ unit.kind = "poll"
  /\ unit.pc = "polling"
  /\ unit.timeout = "positive"
  /\ unit.count < MaxPollRounds
  /\ \E order \in MapRangeOrders(DOMAIN unit.ResultCollection) :
       LET slept == IF unit.count > 0 THEN unit.sleeps + 1 ELSE unit.sleeps
           r == ShouldStopPolling(unit, order)
           looked == [unit EXCEPT !.sleeps = slept, !.upHosts = r.upHosts,
                        !.notUpHosts = r.notUpHosts, !.examined = r.examined,
                        !.looks = @ + 1]
       IN IF r.err # "nil"
          THEN unit' = [looked EXCEPT !.pc = "returned", !.result = EXCEPTION,
                          !.cause = "parse"]
          ELSE IF r.stop
          THEN unit' = [looked EXCEPT !.pc = "returned", !.result = SUCCESS,
                          !.cause = "all up"]
          ELSE \/ /\ DispatchCanFail(unit.RequestCollection)
                  /\ unit' = [looked EXCEPT !.pc = "returned", !.result = EXCEPTION,
                                !.cause = "dispatch"]
               \/ unit' = [looked EXCEPT !.pc = "waiting", !.dispatches = @ + 1,
                             !.outstanding = Cardinality(unit.RequestCollection)]
  /\ UNCHANGED baseVars

\* processResult is called again on an op that returned success
PollProcessResultAgain ==
  /\ unit.kind = "poll"
  /\ unit.pc = "returned"
  /\ unit.result = SUCCESS
  /\ unit.calls = 1
  /\ unit' = [unit EXCEPT !.pc = "polling", !.calls = 2, !.count = 0,
                !.sleeps = 0, !.dispatches = 0, !.looks = 0, !.result = "none",
                !.cause = "none"]
  /\ UNCHANGED baseVars

NextPoll ==
  \/ PollPrepare
  \/ PollExecute
  \/ PollReceive
  \/ PollInvalidTimeout
  \/ PollTimeIsOver
  \/ PollIterate
  \/ PollProcessResultAgain

SpecPoll == InitPoll /\ [][NextPoll]_vars

\* the goroutine that runs the op is scheduled, every request dispatched is
\* answered or times out, and the clock advances
FairSpecPoll == SpecPoll /\ WF_vars(NextPoll)

\* C26: poll-node-state is idempotent: once processResult has returned
\* success, a second call of it returns success at once, without sleeping
\* and without dispatching any request.
C26_SecondCallSucceedsAtOnce ==
  (unit.kind = "poll" /\ unit.calls = 2 /\ unit.pc = "returned") =>
    (unit.result = SUCCESS /\ unit.sleeps = 0 /\ unit.dispatches = 0)

\* C27: poll-node-state returns success only when every expected address is
\* UP in the /nodes response it examined last; a node that an earlier poll
\* saw UP and that is not UP any more does not count.
C27_SuccessMeansAllUpNow ==
  (unit.kind = "poll" /\ unit.pc = "returned" /\ unit.result = SUCCESS) =>
    unit.allHosts \subseteq UpAddresses(unit.examined)


PollRunning == unit.kind = "poll" /\ unit.pc \in {"executing", "polling", "waiting"}

PollReturned == unit.kind = "poll" /\ unit.pc = "returned"

DeliveredResult(adapterHost, hostResult) == [host |-> adapterHost, result |-> hostResult]

\* mutant: the results are stored in the order of their arrival
CollectInto_ByArrival(resultCollection, result) ==
  MapPut(resultCollection, Cardinality(DOMAIN resultCollection) + 1, result)

\* clusterHTTPRequest.ResultCollection[result.host] = result
CollectInto(resultCollection, result) == MapPut(resultCollection, result.host, result)

\* the request collection after Prepare, the pool after Setup on its hosts,
\* and what every host will answer; arrived records the order in which the
\* goroutines deliver
InitSend ==
  /\ BaseIdle
  /\ unit \in
       {[kind |-> "send", pc |-> "call", RequestCollection |-> DOMAIN outcomes,
         outcomes |-> outcomes, connections |-> Setup(EmptyMap, DOMAIN outcomes),
         taskState |-> [h \in DOMAIN outcomes |-> "none"], resultChannel |-> <<>>,
         hostCount |-> 0, i |-> 0, ResultCollection |-> EmptyMap,
         arrived |-> <<>>] :
          outcomes \in ResultMaps(AnswerKinds)}

\* sendRequest up to the collect loop: one goroutine per host is started and
\* ResultCollection is a fresh map
SendDispatch ==
  /\ unit.kind = "send"
  /\ unit.pc = "call"
  /\ ~MissingAdapter(unit.connections, unit.RequestCollection)
  /\ unit' = [unit EXCEPT !.pc = "collect",
                !.hostCount = Cardinality(unit.RequestCollection),
                !.taskState = [h \in unit.RequestCollection |-> "running"],
                !.ResultCollection = EmptyMap, !.i = 0]
  /\ UNCHANGED baseVars

\* the goroutine of host h delivers its result on the channel
SendDeliver(h) ==
  /\ unit.kind = "send"
  /\ unit.pc = "collect"
  /\ h \in DOMAIN unit.taskState
  /\ unit.taskState[h] = "running"
  /\ Len(unit.resultChannel) < unit.hostCount
  /\ unit' = [unit EXCEPT !.taskState[h] = "done", !.arrived = Append(@, h),
                !.resultChannel =
                   Append(@, DeliveredResult(unit.connections[h],
                                             HTTPResultOf(unit.outcomes[h], h, <<>>)))]
  /\ UNCHANGED baseVars

\* one iteration of the collect loop
SendCollect ==
  /\ unit.kind = "send"
  /\ unit.pc = "collect"
  /\ ~AllCollected(unit.i, unit.hostCount)
  /\ unit.resultChannel # <<>>
  /\ unit' = [unit EXCEPT !.resultChannel = Tail(@), !.i = @ + 1,
                !.ResultCollection = CollectInto(@, Head(unit.resultChannel))]
  /\ UNCHANGED baseVars

\* close(resultChannel); return nil
SendReturn ==
  /\ unit.kind = "send"
  /\ unit.pc = "collect"
  /\ AllCollected(unit.i, unit.hostCount)
  /\ unit' = [unit EXCEPT !.pc = "returned"]
  /\ UNCHANGED baseVars

NextSend ==
  \/ SendDispatch
  \/ \E h \in Hosts : SendDeliver(h)
  \/ SendCollect
  \/ SendReturn

SpecSend == InitSend /\ [][NextSend]_vars

\* C30: the ResultCollection of sendRequest does not depend on the order in
\* which the per-host tasks finish: whatever the interleaving, it is the map
\* from every host of the request to the result fixed for that host.
C30_ResultCollectionOrderFree ==
  (unit.kind = "send" /\ unit.pc = "returned") =>
    unit.ResultCollection =
      [h \in unit.RequestCollection |->
         DeliveredResult(h, HTTPResultOf(unit.outcomes[h], h, <<>>))]

\* two hosts with different results, the second one delivered first
C30_Witness ==
  /\ unit.kind = "send"
  /\ unit.pc = "returned"
  /\ unit.arrived = <<2, 1>>
  /\ unit.outcomes[1] # unit.outcomes[2]
  /\ DOMAIN unit.ResultCollection = {1, 2}

\* ======================================================= read catalog editor
\* NMAReadCatalogEditorOp: prepare builds one GET catalog/database per host
\* of the database (or per initiator), execute dispatches them and
\* processResult keeps the hosts with the highest spread version and the
\* catalog of the first of them.
MaxSpreadVersion == 2

\* what a host does with GET catalog/database: be unreachable, answer a
\* body that is not a catalog, answer a catalog whose spread version is not
\* an integer, or answer a catalog with a spread version
CatalogAnswerKinds ==
  {[kind |-> k, spread |-> 0] : k \in {"unreachable", "garbage", "badSpread"}}
    \cup {[kind |-> "catalog", spread |-> v] : v \in 0..MaxSpreadVersion}

\* the NmaVDatabase a host answers with, named after the host
NmaVDatabase(host, spread) == [Name |-> TargetDB, reportedBy |-> host, Spread |-> spread]

\* NmaVDatabase{}
EmptyNmaVDatabase == [Name |-> "", reportedBy |-> NoHost, Spread |-> 0]

\* the HostHTTPResult of a host: parses tells whether the body is a catalog,
\* spreadIsInt whether Versions.Spread.Int64() succeeds
CatalogResultOf(answer, host) ==
  CASE answer.kind = "unreachable" ->
         [err |-> "connection refused", parses |-> FALSE, spreadIsInt |-> FALSE,
          nmaVDB |-> EmptyNmaVDatabase]
    [] answer.kind = "garbage" ->
         [err |-> "nil", parses |-> FALSE, spreadIsInt |-> FALSE,
          nmaVDB |-> EmptyNmaVDatabase]
    [] answer.kind = "badSpread" ->
         [err |-> "nil", parses |-> TRUE, spreadIsInt |-> FALSE,
          nmaVDB |-> NmaVDatabase(host, 0)]
    [] answer.kind = "catalog" ->
         [err |-> "nil", parses |-> TRUE, spreadIsInt |-> TRUE,
          nmaVDB |-> NmaVDatabase(host, answer.spread)]

\* the locals of processResult before its loop
CatalogLocals ==
  [allErrs |-> {}, hostsWithLatestCatalog |-> <<>>, maxSpreadVersion |-> 0,
   latestNmaVDB |-> EmptyNmaVDatabase]

\* the loop of processResult over the hosts in the order given
RECURSIVE CatalogLoop(_, _, _)
CatalogLoop(order, results, st) ==
  IF order = <<>> THEN st
  ELSE LET host == Head(order)
           result == results[host]
           spreadVersion == result.nmaVDB.Spread
       IN IF ~HTTPIsPassing(result)
          THEN CatalogLoop(Tail(order), results,
                           [st EXCEPT !.allErrs = @ \cup {result.err}])
          ELSE IF ~result.parses
          THEN CatalogLoop(Tail(order), results,
                           [st EXCEPT !.allErrs = @ \cup {"fail to parse result"}])
          ELSE IF ~result.spreadIsInt
          THEN CatalogLoop(Tail(order), results,
                           [st EXCEPT !.allErrs = @ \cup {"fail to convert spread Version"}])
          ELSE IF spreadVersion > st.maxSpreadVersion
          THEN CatalogLoop(Tail(order), results,
                           [st EXCEPT !.hostsWithLatestCatalog = <<host>>,
                                      !.maxSpreadVersion = spreadVersion,
                                      !.latestNmaVDB = result.nmaVDB])
          ELSE IF spreadVersion = st.maxSpreadVersion
          THEN CatalogLoop(Tail(order), results,
                           [st EXCEPT !.hostsWithLatestCatalog = Append(@, host)])
          ELSE CatalogLoop(Tail(order), results, st)

\* processResult: the error returned (the set of the errors joined, empty
\* for nil) and the execution context
CatalogProcessResult(order, results, execContext) ==
  LET st == CatalogLoop(order, results, CatalogLocals)
  IN IF Len(st.hostsWithLatestCatalog) = 0
     THEN [err |-> st.allErrs \cup {"cannot find any host with the latest catalog"},
           execContext |-> execContext]
     ELSE [err |-> st.allErrs,
           execContext |-> [hostsWithLatestCatalog |-> st.hostsWithLatestCatalog,
                            nmaVDatabase |-> st.latestNmaVDB, written |-> TRUE]]

\* the op as makeNMAReadCatalogEditorOpWithInitiator leaves it, the hosts of
\* vdb.HostNodeMap, what every host will answer, and the execution context
\* as MakeOpEngineExecContext leaves it
InitCatalog ==
  /\ BaseIdle
  /\ unit \in
       {[kind |-> "catalog", pc |-> "made", initiator |-> initiator,
         HostNodeMap |-> vdbHosts, hosts |-> {}, answers |-> answers,
         RequestCollection |-> {}, ResultCollection |-> EmptyMap,
         execContext |-> [hostsWithLatestCatalog |-> <<>>,
                          nmaVDatabase |-> EmptyNmaVDatabase, written |-> FALSE],
         err |-> {}] :
          initiator \in SeqsUpTo(Hosts, 1), vdbHosts \in SUBSET Hosts,
          answers \in [Hosts -> CatalogAnswerKinds]}

\* prepare
CatalogPrepare ==
  /\ unit.kind = "catalog"
  /\ unit.pc = "made"
  /\ IF Len(unit.initiator) = 0
     THEN unit' = [unit EXCEPT !.pc = "prepared", !.hosts = unit.HostNodeMap,
                     !.RequestCollection = unit.HostNodeMap]
     ELSE IF \E i \in DOMAIN unit.initiator : unit.initiator[i] \notin unit.HostNodeMap
     THEN unit' = [unit EXCEPT !.pc = "failed", !.hosts = Range(unit.initiator),
                     !.err = {"cannot find the initiator host"}]
     ELSE unit' = [unit EXCEPT !.pc = "prepared", !.hosts = Range(unit.initiator),
                     !.RequestCollection = Range(unit.initiator)]
  /\ UNCHANGED baseVars

\* execute: runExecute, then processResult
CatalogExecute ==
  /\ unit.kind = "catalog"
  /\ unit.pc = "prepared"
  /\ \/ /\ DispatchCanFail(unit.RequestCollection)
        /\ unit' = [unit EXCEPT !.pc = "executed", !.err = {"fail to dispatch request"}]
     \/ LET results == [h \in unit.RequestCollection |-> CatalogResultOf(unit.answers[h], h)]
        IN \E order \in MapRangeOrders(DOMAIN results) :
             LET r == CatalogProcessResult(order, results, unit.execContext)
             IN unit' = [unit EXCEPT !.pc = "executed", !.ResultCollection = results,
                           !.err = r.err, !.execContext = r.execContext]
  /\ UNCHANGED baseVars

NextCatalog == CatalogPrepare \/ CatalogExecute

SpecCatalog == InitCatalog /\ [][NextCatalog]_vars

\* processResult ran
CatalogProcessed ==
  /\ unit.kind = "catalog"
  /\ unit.pc = "executed"
  /\ "fail to dispatch request" \notin unit.err

\* the hosts that answered a catalog with an integer spread version
CatalogResponding ==
  {h \in unit.RequestCollection : unit.answers[h].kind = "catalog"}

\* C35: after the read-catalog-editor operation hostsWithLatestCatalog is
\* exactly the set of the responding hosts whose spread version is the
\* highest among the responding hosts, and the nmaVDatabase saved is the
\* catalog one of those hosts reported, also when every host reports spread
\* version 0; if no host responds the operation fails and the execution
\* context is unchanged.
C35_LatestCatalogSaved ==
  CatalogProcessed =>
    IF CatalogResponding = {}
    THEN unit.err # {} /\ ~unit.execContext.written
    ELSE LET latest == {h \in CatalogResponding :
                          \A g \in CatalogResponding :
                             unit.answers[g].spread <= unit.answers[h].spread}
         IN /\ Range(unit.execContext.hostsWithLatestCatalog) = latest
            /\ Len(unit.execContext.hostsWithLatestCatalog) = Cardinality(latest)
            /\ \E h \in latest :
                 unit.execContext.nmaVDatabase = NmaVDatabase(h, unit.answers[h].spread)

\* ======================================================= result classifiers
\* The classifiers of HostHTTPResult applied to the results an adapter can
\* deliver: IsHTTPRunning and IsPasswordAndCertificateError.
\* wrongCredentialErrMsg, every message as its list of words
wrongCredentialErrMsg == {<<"Wrong", "password">>, <<"Wrong", "certificate">>}

\* the bodies a host sends along with its status
ResponseContents ==
  wrongCredentialErrMsg
    \cup {<<"Error:", "Wrong", "password", "for", "user">>,
          <<"Local", "node", "has", "not", "joined", "cluster", "yet">>,
          <<"password", "Wrong">>, <<>>}

\* the status codes: no response at all (0), 200, 300, 401, 404, 500
ResponseCodes == {0, SuccessCode, 300, UnauthorizedCode, 404, InternalErrorCode}

\* the HostHTTPResult the adapter delivers for a status code and a body
ResultOfResponse(code, host, content) ==
  [status |-> IF code = SuccessCode THEN SUCCESS
              ELSE IF code = 0 THEN EXCEPTION ELSE FAILURE,
   statusCode |-> code, host |-> host, content |-> content,
   err |-> IF code = SuccessCode THEN "nil"
           ELSE IF code = 0 THEN "connection refused" ELSE "error response"]

\* fmt.Sprintf("%v", hostResult): the fields in their order, as words
ResultString(hostResult) ==
  <<hostResult.status, ToString(hostResult.statusCode), ToString(hostResult.host)>>
    \o hostResult.content \o <<hostResult.err>>

\* strings.Contains on lists of words
Contains(s, substr) ==
  \E i \in 1..(Len(s) - Len(substr) + 1) : SubSeq(s, i, i + Len(substr) - 1) = substr

\* mutant: every 401 is a credential error
IsPasswordAndCertificateError_Any401(hostResult) == IsUnauthorizedRequest(hostResult)

IsPasswordAndCertificateError(hostResult) ==
  IF ~IsUnauthorizedRequest(hostResult) THEN FALSE
  ELSE \E msg \in wrongCredentialErrMsg : Contains(ResultString(hostResult), msg)

\* a result as the adapter delivered it, not yet classified
InitClassify ==
  /\ BaseIdle
  /\ unit \in
       {[kind |-> "classify", hostResult |-> ResultOfResponse(code, host, content),
         isHTTPRunning |-> "none", isPasswordAndCertificateError |-> "none"] :
          code \in ResponseCodes, host \in Hosts, content \in ResponseContents}

ClassifyIsHTTPRunning ==
  /\ unit.kind = "classify"
  /\ unit.isHTTPRunning = "none"
  /\ unit' = [unit EXCEPT !.isHTTPRunning =
                IF IsHTTPRunning(unit.hostResult) THEN "true" ELSE "false"]
  /\ UNCHANGED baseVars

ClassifyIsPasswordAndCertificateError ==
  /\ unit.kind = "classify"
  /\ unit.isPasswordAndCertificateError = "none"
  /\ unit' = [unit EXCEPT !.isPasswordAndCertificateError =
                IF IsPasswordAndCertificateError(unit.hostResult) THEN "true" ELSE "false"]
  /\ UNCHANGED baseVars

NextClassify == ClassifyIsHTTPRunning \/ ClassifyIsPasswordAndCertificateError

SpecClassify == InitClassify /\ [][NextClassify]_vars

\* the body names one of the two credential errors
ClassifyCredentialMessage ==
  \E msg \in wrongCredentialErrMsg : Contains(unit.hostResult.content, msg)

\* C36: a result with status 401 whose message is neither "Wrong password"
\* nor "Wrong certificate" (the node has not joined the cluster, say) is
\* classified as HTTP running and not as a credential error; a 401 with one
\* of the two messages is classified as a credential error; the results with
\* success, 401 or 500 are HTTP running and no other result is.
C36_UnauthorizedIsRunningNotCredential ==
  unit.kind = "classify" =>
    /\ unit.isHTTPRunning # "none" =>
         (unit.isHTTPRunning = "true" <=>
            \/ unit.hostResult.status = SUCCESS
            \/ unit.hostResult.statusCode \in {401, 500})
    /\ unit.isPasswordAndCertificateError # "none" =>
         (unit.isPasswordAndCertificateError = "true" <=>
            (unit.hostResult.statusCode = 401 /\ ClassifyCredentialMessage))

\* a 401 of a node that has not joined the cluster: running, no credential
\* error
C36_Witness ==
  /\ unit.kind = "classify"
  /\ unit.hostResult.statusCode = 401
  /\ unit.hostResult.content = <<"Local", "node", "has", "not", "joined", "cluster", "yet">>
  /\ unit.isHTTPRunning = "true"
  /\ unit.isPasswordAndCertificateError = "false"

\* ======================================================= create node
\* HTTPCreateNodeOp: the constructor computes the hosts to create nodes on,
\* Prepare reads the broadcast address from the network profiles of the
\* execution context and builds one POST /nodes per host of the op, Execute
\* dispatches them and processResult looks for created_nodes.
\* what a host does with POST /nodes: be unreachable, answer a body that is
\* not a JSON object, answer without created_nodes, answer with created_nodes
CreateNodeAnswerKinds == {"unreachable", "garbage", "noCreatedNodes", "created"}

\* util.SliceDiff(vdb.HostList, hosts), in the order of vdb.HostList
NewNodeHosts(hostList, hosts) ==
  SelectSeq(hostList, LAMBDA h : h \notin Range(hosts))

\* processResult
CreateNodeProcessResult(results) ==
  IF \A h \in DOMAIN results : results[h] = "created" THEN SUCCESS ELSE FAILURE

\* the op as MakeHTTPCreateNodeOp leaves it, the network profiles of the
\* execution context and what every host will answer
InitCreateNode ==
  /\ BaseIdle
  /\ unit \in
       {[kind |-> "createNode", pc |-> "made", hosts |-> hosts, HostList |-> hostList,
         RequestParams |-> [hosts |-> NewNodeHosts(hostList, hosts), broadcast |-> <<>>],
         networkProfiles |-> profiles, answers |-> answers,
         RequestCollection |-> EmptyMap, sent |-> {}, result |-> "none"] :
          hosts \in UpHostLists, hostList \in UpHostLists,
          profiles \in SUBSET Hosts, answers \in [Hosts -> CreateNodeAnswerKinds]}

\* Prepare: updateQueryParams, Setup, setupClusterHTTPRequest
CreateNodePrepare ==
  /\ unit.kind = "createNode"
  /\ unit.pc = "made"
  /\ LET u == UpdateQueryParams(unit, unit.networkProfiles)
     IN IF u.panic
        THEN unit' = [unit EXCEPT !.pc = "panicked"]
        ELSE unit' = [unit EXCEPT !.pc = "prepared", !.RequestParams = u.RequestParams,
                        !.RequestCollection =
                          [h \in Range(unit.hosts) |->
                             [Method |-> "POST", endpoint |-> "nodes",
                              QueryParams |-> u.RequestParams]]]
  /\ UNCHANGED baseVars

\* Execute: op.execute, then processResult
CreateNodeExecute ==
  /\ unit.kind = "createNode"
  /\ unit.pc = "prepared"
  /\ \/ /\ DispatchCanFail(DOMAIN unit.RequestCollection)
        /\ unit' = [unit EXCEPT !.pc = "executed", !.result = EXCEPTION]
     \/ unit' = [unit EXCEPT !.pc = "executed", !.sent = DOMAIN unit.RequestCollection,
                   !.result = CreateNodeProcessResult(
                                [h \in DOMAIN unit.RequestCollection |-> unit.answers[h]])]
  /\ UNCHANGED baseVars

NextCreateNode == CreateNodePrepare \/ CreateNodeExecute

SpecCreateNode == InitCreateNode /\ [][NextCreateNode]_vars

\* the hosts to create nodes on
CreateNodeNewHosts == Range(NewNodeHosts(unit.HostList, unit.hosts))

\* C37: the create-node request sent to the initiator carries a broadcast
\* query parameter equal to the broadcast address in the network profile of
\* the new host; when that profile is missing from the execution context
\* prepare aborts and no request is dispatched.
C37_BroadcastOfNewHost ==
  (unit.kind = "createNode" /\ unit.pc # "made" /\ CreateNodeNewHosts # {}) =>
    /\ \A h \in DOMAIN unit.RequestCollection :
         \E n \in CreateNodeNewHosts :
            unit.RequestCollection[h].QueryParams.broadcast = NetworkProfile(n).Broadcast
    /\ (\E n \in CreateNodeNewHosts : n \notin unit.networkProfiles) =>
         (unit.RequestCollection = EmptyMap /\ unit.sent = {})

====
